---- MODULE Spec2Model ----
(***************************************************************************)
(* Model of the content script of select-to-search (class SelectionHandler *)
(* of src/unnamed/part_002), of the background service                     *)
(* (src/src/background.ts, src/unnamed/part_001) and of the options page   *)
(* (src/src/options/OptionsPage.tsx).                                      *)
(*   Spec          one handler, its floating overlay, its debounce timers  *)
(*                 and its messages to the background service              *)
(*   SpecSettings  the same handler under every settings value             *)
(*   SpecPlacement positionContainer on every layout                       *)
(*   SpecLifecycle the document across re-initialisations, with every      *)
(*                 handler constructed in it                               *)
(*   SpecBackground the background service answering OPEN_TAB messages     *)
(*   SpecShow      showFloatingUI statement by statement, any of its DOM   *)
(*                 reads after the attachment raising an exception         *)
(*   SpecLive      Spec with every pending debounce timer firing           *)
(*   SpecMessaging the messages between content script and background     *)
(*                 service, each from sendMessage to its callback          *)
(*   SpecOptions   the options page: toggles and their asynchronous saves  *)
(* Every event handler is one action; a handler runs to the end before     *)
(* the next one starts (single-threaded event loop).                       *)
(***************************************************************************)
EXTENDS Integers, Sequences, FiniteSets, TLC

(***************************************************************************)
(* Bounds of the model.                                                    *)
(***************************************************************************)
\* most debounce timers pending at once
MaxTimers == 2
\* most OPEN_TAB requests in flight at once
MaxRequests == 1
\* most SelectionHandler objects constructed in the life of one document
MaxHandlers == 3
\* most initialisation timers (100 ms and 500 ms) pending at once
MaxTasks == 2
\* most OPEN_TAB messages the background service receives
MaxMessages == 2
\* most containers left in the shadow root by calls of showFloatingUI that
\* an exception ended
MaxOrphans == 2
\* most requestAnimationFrame callbacks pending at once
MaxFrames == 1
\* most messages sent with chrome.runtime.sendMessage
MaxSent == 2
\* most toggles made on the options page
MaxToggles == 3

(***************************************************************************)
(* Text.  A string is a sequence of one-character strings.  "HS" stands    *)
(* for a lone UTF-16 high surrogate (a code unit that is not part of a     *)
(* pair), which a DOM text node may hold.                                  *)
(***************************************************************************)
WhiteSpace == {" "}

RECURSIVE trimStart(_)
trimStart(s) ==
  IF s # <<>> /\ Head(s) \in WhiteSpace THEN trimStart(Tail(s)) ELSE s

RECURSIVE trimEnd(_)
trimEnd(s) ==
  IF s # <<>> /\ s[Len(s)] \in WhiteSpace
    THEN trimEnd(SubSeq(s, 1, Len(s) - 1))
    ELSE s

\* String.prototype.trim
trim(s) == trimEnd(trimStart(s))

\* the texts a selection can have (Selection.toString())
Texts ==
  { <<>>,
    << " " >>,
    << " ", "a", " ", "&", " " >>,
    << "HS" >> }

\* encodeURIComponent of one character
encodeChar(c) ==
  CASE c = " " -> << "%20" >>
    [] c = "&" -> << "%26" >>
    [] OTHER   -> << c >>

RECURSIVE encodeChars(_)
encodeChars(s) ==
  IF s = <<>> THEN <<>> ELSE encodeChar(Head(s)) \o encodeChars(Tail(s))

\* encodeURIComponent: throws URIError on a lone surrogate
encodeURIComponent(s) ==
  IF \E i \in 1..Len(s) : s[i] = "HS"
    THEN [threw |-> TRUE, value |-> <<>>]
    ELSE [threw |-> FALSE, value |-> encodeChars(s)]

\* PROVIDER_URLS with the Google link on the host name without www
PROVIDER_URLS_bareHost(provider, encoded) ==
  CASE provider = "google" ->
         << "https://google.com/search?q=" >> \o encoded
    [] provider = "chatgpt" ->
         << "https://chatgpt.com/?q=" >> \o encoded \o << "&input=" >> \o encoded
    [] provider = "claude" ->
         << "https://claude.ai/new?q=" >> \o encoded

\* PROVIDER_URLS[provider](text), given the encoded text
PROVIDER_URLS(provider, encoded) ==
  CASE provider = "google" ->
         << "https://www.google.com/search?q=" >> \o encoded
    [] provider = "chatgpt" ->
         << "https://chatgpt.com/?q=" >> \o encoded \o << "&input=" >> \o encoded
    [] provider = "claude" ->
         << "https://claude.ai/new?q=" >> \o encoded

(***************************************************************************)
(* The background service (src/src/background.ts), as far as it answers    *)
(* an OPEN_TAB message.                                                    *)
(***************************************************************************)
\* what new URL(s) makes of a string that starts with the given text: the
\* protocol and the host name in lower case, or threw for a TypeError
ParsedUrl(protocol, hostname) ==
  [threw |-> FALSE, protocol |-> protocol, hostname |-> hostname]

\* new URL(url); a URL is a sequence whose first element is its text up to
\* the query value.  A string with no scheme, the empty string included, is
\* no URL: the constructor throws.
parseUrl(url) ==
  IF url = <<>> THEN [threw |-> TRUE, protocol |-> "", hostname |-> ""]
  ELSE
  CASE Head(url) = "https://www.google.com/search?q=" ->
         ParsedUrl("https:", "www.google.com")
    [] Head(url) = "https://google.com/search?q=" ->
         ParsedUrl("https:", "google.com")
    [] Head(url) = "https://chatgpt.com/?q=" ->
         ParsedUrl("https:", "chatgpt.com")
    [] Head(url) = "https://claude.ai/new?q=" ->
         ParsedUrl("https:", "claude.ai")
    [] Head(url) = "HTTPS://Claude.AI/new?q=" ->
         ParsedUrl("https:", "claude.ai")
    [] Head(url) = "http://www.google.com/search?q=" ->
         ParsedUrl("http:", "www.google.com")
    [] Head(url) = "https://evil.example/?q=" ->
         ParsedUrl("https:", "evil.example")
    [] Head(url) = "https://claude.ai.evil.example/new?q=" ->
         ParsedUrl("https:", "claude.ai.evil.example")
    [] Head(url) = "javascript:alert(1)//" ->
         ParsedUrl("javascript:", "")
    [] OTHER -> [threw |-> TRUE, protocol |-> "", hostname |-> ""]

allowedDomains == {"www.google.com", "chatgpt.com", "claude.ai"}

\* validateUrl without its test of the host name
validateUrl_noHostTest(url) ==
  IF parseUrl(url).threw THEN <<>>
  ELSE IF parseUrl(url).protocol # "https:" THEN <<>>
  ELSE url

\* BackgroundService.validateUrl: the URL, or <<>> for null (an exception
\* of new URL is caught and gives null)
validateUrl(url) ==
  IF parseUrl(url).threw THEN <<>>
  ELSE IF parseUrl(url).protocol # "https:" THEN <<>>
  ELSE IF parseUrl(url).hostname \notin allowedDomains THEN <<>>
  ELSE url

\* BackgroundService.openProviderTab: TRUE when the promise is fulfilled,
\* FALSE when it is rejected; createRejects is the outcome of
\* chrome.tabs.create
openProviderTab(url, createRejects) ==
  IF validateUrl(url) = <<>> THEN FALSE
  ELSE ~createRejects

\* the OPEN_TAB branch answering success: true whatever openProviderTab did
handleMessage_alwaysSuccess(url, createRejects) ==
  [success |-> TRUE]

\* the OPEN_TAB branch of BackgroundService.handleMessage: the response
handleMessage(url, createRejects) ==
  [success |-> openProviderTab(url, createRejects)]

\* the value BackgroundService.handleMessage returns for a message of the
\* given type: TRUE keeps the channel open for a response sent later
handleMessageReturns(type) ==
  IF type = "OPEN_TAB" THEN TRUE
  ELSE IF type = "GET_SETTINGS" THEN TRUE
  ELSE IF type = "SETTINGS_UPDATED" THEN FALSE
  ELSE FALSE

\* { ...a, ...b }
spread(a, b) ==
  [k \in DOMAIN a \cup DOMAIN b |-> IF k \in DOMAIN b THEN b[k] ELSE a[k]]

\* defaultSettings of the storage module, as far as the content script
\* reads it
defaultSettings ==
  [enabled |-> TRUE, chatgpt |-> TRUE, google |-> TRUE, claude |-> FALSE]

\* getSettings of the storage module.  openFails: the promise of openDB is
\* rejected; transactionThrows: db.transaction or store.get throws;
\* readFails: request.onerror fires; hasStored and stored: the result of the
\* read.  The promise made in the try block is returned, not awaited, so
\* its rejection is the rejection of getSettings; only the await of openDB
\* is inside the reach of the catch.
getSettings(openFails, transactionThrows, readFails, hasStored, stored) ==
  IF openFails THEN [rejected |-> FALSE, value |-> defaultSettings]
  ELSE IF transactionThrows THEN [rejected |-> TRUE, value |-> defaultSettings]
  ELSE IF readFails THEN [rejected |-> TRUE, value |-> defaultSettings]
  ELSE IF hasStored
    THEN [rejected |-> FALSE, value |-> spread(defaultSettings, stored)]
    ELSE [rejected |-> FALSE, value |-> defaultSettings]

\* the GET_SETTINGS branch of BackgroundService.handleMessage, given how
\* getSettings settled: the response (isNull for null)
getSettingsResponse(outcome) ==
  IF outcome.rejected
    THEN [isNull |-> TRUE, value |-> defaultSettings]
    ELSE [isNull |-> FALSE, value |-> outcome.value]

(***************************************************************************)
(* The options page (src/src/options/OptionsPage.tsx).  o.settings is the  *)
(* React state the handlers of the current render close over; it changes   *)
(* only when setSettings runs, after the await of a save.                  *)
(***************************************************************************)
\* the initial state of useState<Settings>
optionsDefaults ==
  [enabled |-> TRUE,
   providers |-> [chatgpt |-> TRUE, google |-> TRUE, claude |-> FALSE],
   affordanceMode |-> "quick-actions"]

\* OptionsPage.saveSettings up to its await: the call of
\* chrome.storage.sync.set with the object built from the rendered state
saveSettings(o, newSettings) ==
  LET updatedSettings == spread(o.settings, newSettings)
  IN [o EXCEPT !.saves = Append(@, updatedSettings)]

\* OptionsPage.saveSettings after its await: the items are stored and
\* setSettings(updatedSettings) runs
saveSettingsResolved(o) ==
  [o EXCEPT !.stored = spread(@, Head(o.saves)),
            !.settings = Head(o.saves),
            !.saves = Tail(@)]

\* OptionsPage.saveSettings when the promise is rejected: the catch block
saveSettingsRejected(o) ==
  [o EXCEPT !.saves = Tail(@), !.failed = TRUE]

\* OptionsPage.handleEnabledChange
handleEnabledChange(o, enabled) == saveSettings(o, [enabled |-> enabled])

\* OptionsPage.handleProviderChange
handleProviderChange(o, provider, enabled) ==
  LET newProviders == [o.settings.providers EXCEPT ![provider] = enabled]
  IN saveSettings(o, [providers |-> newProviders])

\* OptionsPage.handleModeChange
handleModeChange(o, affordanceMode) ==
  saveSettings(o, [affordanceMode |-> affordanceMode])

(***************************************************************************)
(* The page.  The nodes a selection range can start in: each has a node    *)
(* type, a tag name (of the element, for a text node none), the value of   *)
(* its contenteditable attribute ("none" when absent) and a parent.        *)
(***************************************************************************)
Page ==
  [ body     |-> [nodeType |-> "element", tagName |-> "BODY",     ce |-> "none",  parent |-> "body"],
    p        |-> [nodeType |-> "element", tagName |-> "P",        ce |-> "none",  parent |-> "body"],
    pText    |-> [nodeType |-> "text",    tagName |-> "",         ce |-> "none",  parent |-> "p"],
    input    |-> [nodeType |-> "element", tagName |-> "INPUT",    ce |-> "none",  parent |-> "body"],
    textarea |-> [nodeType |-> "element", tagName |-> "TEXTAREA", ce |-> "none",  parent |-> "body"],
    divT     |-> [nodeType |-> "element", tagName |-> "DIV",      ce |-> "true",  parent |-> "body"],
    divTText |-> [nodeType |-> "text",    tagName |-> "",         ce |-> "none",  parent |-> "divT"],
    spanTF   |-> [nodeType |-> "element", tagName |-> "SPAN",     ce |-> "false", parent |-> "divT"],
    spanTFText |-> [nodeType |-> "text",  tagName |-> "",         ce |-> "none",  parent |-> "spanTF"],
    divE     |-> [nodeType |-> "element", tagName |-> "DIV",      ce |-> "",      parent |-> "body"],
    divEText |-> [nodeType |-> "text",    tagName |-> "",         ce |-> "none",  parent |-> "divE"],
    spanEF   |-> [nodeType |-> "element", tagName |-> "SPAN",     ce |-> "false", parent |-> "divE"],
    spanEFText |-> [nodeType |-> "text",  tagName |-> "",         ce |-> "none",  parent |-> "spanEF"] ]

\* the nodes a range is made to start in
StartContainers ==
  {"pText", "input", "textarea", "divTText", "spanTFText", "divEText", "spanEFText"}

\* HTMLElement.isContentEditable: the nearest contenteditable attribute
\* decides; "true", "" and "plaintext-only" are the editable states
RECURSIVE isContentEditable(_)
isContentEditable(el) ==
  CASE Page[el].ce \in {"true", "", "plaintext-only"} -> TRUE
    [] Page[el].ce = "false" -> FALSE
    [] OTHER -> IF Page[el].parent = el THEN FALSE
                ELSE isContentEditable(Page[el].parent)

\* el.matches('input, textarea, [contenteditable="true"]')
matchesEditableSelector(el) ==
  \/ Page[el].tagName = "INPUT"
  \/ Page[el].tagName = "TEXTAREA"
  \/ Page[el].ce = "true"

\* el.closest('input, textarea, [contenteditable="true"]') !== null
RECURSIVE closestEditable(_)
closestEditable(el) ==
  IF matchesEditableSelector(el) THEN TRUE
  ELSE IF Page[el].parent = el THEN FALSE
  ELSE closestEditable(Page[el].parent)

\* SelectionHandler.isInEditableElement
isInEditableElement(node) ==
  LET el == IF Page[node].nodeType = "text" THEN Page[node].parent ELSE node
  IN \/ Page[el].tagName = "INPUT"
     \/ Page[el].tagName = "TEXTAREA"
     \/ isContentEditable(el)
     \/ closestEditable(el)

(***************************************************************************)
(* The live selection, as a handler finds it when it calls                 *)
(* window.getSelection(): null, or a collapsed selection, or a range with  *)
(* a text and a start container.  The selection belongs to the page and    *)
(* the user, not to the handler: each handler that reads it may find any   *)
(* of these values.  The field throws tells that the call of               *)
(* window.getSelection() raises an exception instead of returning.         *)
(***************************************************************************)
NullSelection ==
  [isNull |-> TRUE, isCollapsed |-> TRUE, text |-> <<>>,
   startContainer |-> "body", throws |-> FALSE]

CollapsedSelection ==
  [isNull |-> FALSE, isCollapsed |-> TRUE, text |-> <<>>,
   startContainer |-> "body", throws |-> FALSE]

RangeSelection(t, n) ==
  [isNull |-> FALSE, isCollapsed |-> FALSE, text |-> t,
   startContainer |-> n, throws |-> FALSE]

\* the user has selected text of a paragraph, and the selection API throws
ThrowingSelection ==
  [isNull |-> FALSE, isCollapsed |-> FALSE, text |-> << " ", "a", " ", "&", " " >>,
   startContainer |-> "pText", throws |-> TRUE]

\* every text in a plain paragraph, and one text in every other place
Selections ==
  {NullSelection, CollapsedSelection, ThrowingSelection}
  \cup { RangeSelection(t, "pText") : t \in Texts }
  \cup { RangeSelection(<< " ", "a", " ", "&", " " >>, n) : n \in StartContainers }

(***************************************************************************)
(* Settings (the theme has no effect on the overlay's life cycle).         *)
(***************************************************************************)
AllSettings ==
  [enabled : BOOLEAN, chatgpt : BOOLEAN, google : BOOLEAN, claude : BOOLEAN]

\* the settings a message carries
SettingsValues ==
  { [enabled |-> TRUE,  chatgpt |-> TRUE,  google |-> TRUE,  claude |-> FALSE],
    [enabled |-> FALSE, chatgpt |-> TRUE,  google |-> TRUE,  claude |-> FALSE],
    [enabled |-> TRUE,  chatgpt |-> FALSE, google |-> FALSE, claude |-> TRUE] }

\* SelectionHandler.getDefaultSettings
getDefaultSettings ==
  [enabled |-> TRUE, chatgpt |-> TRUE, google |-> TRUE, claude |-> FALSE]

(***************************************************************************)
(* Geometry.  Numbers are whole pixels; NaN stands for the IEEE not-a-     *)
(* number value, which every sum and difference carries on and which no    *)
(* comparison accepts.  Widths and heights are even, so halving is exact.  *)
(***************************************************************************)
NaN == -1000000

isNaN(x) == x = NaN

Sum(a, b) == IF isNaN(a) \/ isNaN(b) THEN NaN ELSE a + b

Diff(a, b) == IF isNaN(a) \/ isNaN(b) THEN NaN ELSE a - b

Half(a) == IF isNaN(a) THEN NaN ELSE a \div 2

\* Math.max and Math.min of two numbers
Math_max(a, b) == IF isNaN(a) \/ isNaN(b) THEN NaN ELSE IF a >= b THEN a ELSE b

Math_min(a, b) == IF isNaN(a) \/ isNaN(b) THEN NaN ELSE IF a <= b THEN a ELSE b

\* clamp that applies the lower limit only
clamp_noMax(value, min, max) ==
  IF isNaN(value) THEN min
  ELSE Math_max(min, value)

\* clamp without its test for NaN
clamp_noNaNTest(value, min, max) ==
  Math_max(min, Math_min(value, max))

\* SelectionHandler.clamp
clamp(value, min, max) ==
  IF isNaN(value) THEN min
  ELSE Math_max(min, Math_min(value, max))

\* new DOMRect(x, y, width, height)
DOMRect(x, y, width, height) ==
  [left |-> x, top |-> y, width |-> width, height |-> height,
   right |-> Sum(x, width), bottom |-> Sum(y, height)]

\* window.innerWidth and window.innerHeight
innerWidth == 200
innerHeight == 100

\* elements of the page that elementsFromPoint can return: a fixed bar at the
\* top, a fixed bar at the bottom, a fixed panel on the right, a fixed badge
\* in the left half, and a paragraph in normal flow
navBar == [rect |-> DOMRect(0, 0, 200, 60), position |-> "fixed",
  visibility |-> "visible", display |-> "block", pointerEvents |-> "auto"]
footBar == [rect |-> DOMRect(0, 60, 200, 40), position |-> "fixed",
  visibility |-> "visible", display |-> "block", pointerEvents |-> "auto"]
sidePanel == [rect |-> DOMRect(120, 0, 80, 100), position |-> "fixed",
  visibility |-> "visible", display |-> "block", pointerEvents |-> "auto"]
badge == [rect |-> DOMRect(0, 40, 90, 30), position |-> "absolute",
  visibility |-> "visible", display |-> "block", pointerEvents |-> "auto"]
paragraph == [rect |-> DOMRect(0, 0, 200, 100), position |-> "static",
  visibility |-> "visible", display |-> "block", pointerEvents |-> "auto"]
\* a fixed layer over the whole viewport that lets pointer events through
clickThrough == [rect |-> DOMRect(0, 0, 200, 100), position |-> "fixed",
  visibility |-> "visible", display |-> "block", pointerEvents |-> "none"]
\* a fixed banner that is hidden
hiddenBanner == [rect |-> DOMRect(0, 0, 200, 70), position |-> "fixed",
  visibility |-> "hidden", display |-> "block", pointerEvents |-> "auto"]

\* the pages: the positioned elements laid over the text
ElementLists ==
  { << paragraph >>,
    << paragraph, navBar >>,
    << paragraph, navBar, footBar >>,
    << paragraph, navBar, sidePanel >>,
    << paragraph, badge, sidePanel, footBar >>,
    << paragraph, clickThrough, hiddenBanner, footBar >> }

\* the rectangles getSelectionEndRect can return
SelectionRects ==
  { DOMRect(x, y, w, h) : x \in {NaN, 0, 90, 180, 210}, y \in {0, 40, 80},
                          w \in {0, 20}, h \in {0, 20} }

\* the sizes container.getBoundingClientRect() can measure
MeasuredSizes ==
  { [width |-> w, height |-> h] : w \in {0, 60, 196, 240}, h \in {0, 30, 96, 120} }

\* what positionContainer reads from the page: the selection rectangle, the
\* measured size of the container and the elements of the page
Layouts ==
  [selectionRect : SelectionRects, measured : MeasuredSizes, elements : ElementLists]

\* SelectionHandler.getCandidatePositions
getCandidatePositions(selectionRect, containerWidth, containerHeight, offset, viewportWidth, viewportHeight) ==
  LET margin == 4
      centerLeft == clamp(
        Diff(Sum(selectionRect.left, Half(selectionRect.width)), Half(containerWidth)),
        margin, viewportWidth - containerWidth - margin)
      belowTop == clamp(
        Sum(selectionRect.bottom, offset),
        margin, viewportHeight - containerHeight - margin)
      aboveTop == clamp(
        Diff(Diff(selectionRect.top, containerHeight), offset),
        margin, viewportHeight - containerHeight - margin)
      rightLeft == clamp(
        Sum(selectionRect.right, offset),
        margin, viewportWidth - containerWidth - margin)
      leftLeft == clamp(
        Diff(Diff(selectionRect.left, containerWidth), offset),
        margin, viewportWidth - containerWidth - margin)
      middleTop == clamp(
        Diff(Sum(selectionRect.top, Half(selectionRect.height)), Half(containerHeight)),
        margin, viewportHeight - containerHeight - margin)
  IN << [top |-> belowTop, left |-> centerLeft],
        [top |-> aboveTop, left |-> centerLeft],
        [top |-> middleTop, left |-> rightLeft],
        [top |-> middleTop, left |-> leftLeft] >>

\* SelectionHandler.getSamplePoints
getSamplePoints(rect) ==
  LET padding == 1
      points ==
        << [x |-> rect.left + padding, y |-> rect.top + padding],
           [x |-> rect.right - padding, y |-> rect.top + padding],
           [x |-> rect.left + padding, y |-> rect.bottom - padding],
           [x |-> rect.right - padding, y |-> rect.bottom - padding],
           [x |-> rect.left + Half(rect.width), y |-> rect.top + Half(rect.height)] >>
  IN [i \in 1..5 |-> [x |-> clamp(points[i].x, 0, innerWidth - 1),
                      y |-> clamp(points[i].y, 0, innerHeight - 1)]]

\* document.elementsFromPoint(x, y): the elements (as places in the list)
\* that hit testing finds at the point: rendered, visible, open to pointer
\* events, and with a box that holds the point
elementsFromPoint(elements, x, y) ==
  { i \in 1..Len(elements) :
      /\ elements[i].display # "none"
      /\ elements[i].visibility # "hidden"
      /\ elements[i].pointerEvents # "none"
      /\ elements[i].rect.left <= x /\ x < elements[i].rect.right
      /\ elements[i].rect.top <= y /\ y < elements[i].rect.bottom }

\* SelectionHandler.getIntersectionArea
getIntersectionArea(a, b) ==
  LET width == Math_max(0, Math_min(a.right, b.right) - Math_max(a.left, b.left))
      height == Math_max(0, Math_min(a.bottom, b.bottom) - Math_max(a.top, b.top))
  IN width * height

\* getOverlappingRects without the test of the computed position
getOverlappingRects_anyPosition(candidateRect, elements) ==
  LET samplePoints == getSamplePoints(candidateRect)
      found == UNION { elementsFromPoint(elements, samplePoints[i].x, samplePoints[i].y)
                       : i \in 1..5 }
  IN { i \in found :
         /\ ~ ( \/ elements[i].visibility = "hidden"
                \/ elements[i].display = "none"
                \/ elements[i].pointerEvents = "none" )
         /\ elements[i].rect.width # 0
         /\ elements[i].rect.height # 0
         /\ elements[i].rect.left < candidateRect.right
         /\ elements[i].rect.right > candidateRect.left
         /\ elements[i].rect.top < candidateRect.bottom
         /\ elements[i].rect.bottom > candidateRect.top }

\* SelectionHandler.getOverlappingRects: the elements whose rectangles it
\* returns
getOverlappingRects(candidateRect, elements) ==
  LET samplePoints == getSamplePoints(candidateRect)
      found == UNION { elementsFromPoint(elements, samplePoints[i].x, samplePoints[i].y)
                       : i \in 1..5 }
  IN { i \in found :
         /\ ~ ( \/ elements[i].visibility = "hidden"
                \/ elements[i].display = "none"
                \/ elements[i].pointerEvents = "none" )
         /\ elements[i].position \in {"fixed", "absolute", "sticky"}
         /\ elements[i].rect.width # 0
         /\ elements[i].rect.height # 0
         /\ elements[i].rect.left < candidateRect.right
         /\ elements[i].rect.right > candidateRect.left
         /\ elements[i].rect.top < candidateRect.bottom
         /\ elements[i].rect.bottom > candidateRect.top }

\* overlaps.reduce((total, rect) => total + area, 0)
RECURSIVE reduceArea(_, _, _)
reduceArea(candidateRect, elements, overlaps) ==
  IF overlaps = {} THEN 0
  ELSE LET i == CHOOSE j \in overlaps : TRUE
       IN getIntersectionArea(candidateRect, elements[i].rect)
          + reduceArea(candidateRect, elements, overlaps \ {i})

\* SelectionHandler.getOverlapScore
getOverlapScore(candidateRect, elements) ==
  LET overlaps == getOverlappingRects(candidateRect, elements)
  IN IF overlaps = {} THEN 0
     ELSE reduceArea(candidateRect, elements, overlaps)

\* the score of a candidate position for a container of the given size
candidateScore(elements, candidate, containerWidth, containerHeight) ==
  getOverlapScore(
    DOMRect(candidate.left, candidate.top, containerWidth, containerHeight),
    elements)

\* the loop of getBestPosition from candidate i on; bestOverlap = -1 stands
\* for Number.POSITIVE_INFINITY
RECURSIVE bestFrom(_, _, _, _, _, _, _)
bestFrom(elements, candidates, containerWidth, containerHeight, i, bestPosition, bestOverlap) ==
  IF i > Len(candidates) THEN bestPosition
  ELSE
    LET overlapScore == candidateScore(elements, candidates[i],
                                       containerWidth, containerHeight)
        better == bestOverlap = -1 \/ overlapScore < bestOverlap
        position == IF better THEN candidates[i] ELSE bestPosition
        overlap == IF better THEN overlapScore ELSE bestOverlap
    IN IF overlapScore = 0 THEN position
       ELSE bestFrom(elements, candidates, containerWidth, containerHeight,
                     i + 1, position, overlap)

\* the loop of getBestPosition_lastWins from candidate i on
RECURSIVE bestFrom_lastWins(_, _, _, _, _, _, _)
bestFrom_lastWins(elements, candidates, containerWidth, containerHeight, i, bestPosition, bestOverlap) ==
  IF i > Len(candidates) THEN bestPosition
  ELSE
    LET overlapScore == candidateScore(elements, candidates[i],
                                       containerWidth, containerHeight)
        better == bestOverlap = -1 \/ overlapScore <= bestOverlap
        position == IF better THEN candidates[i] ELSE bestPosition
        overlap == IF better THEN overlapScore ELSE bestOverlap
    IN bestFrom_lastWins(elements, candidates, containerWidth, containerHeight,
                         i + 1, position, overlap)

\* getBestPosition that lets a later candidate win a tie and never stops early
getBestPosition_lastWins(elements, candidates, containerWidth, containerHeight) ==
  bestFrom_lastWins(elements, candidates, containerWidth, containerHeight, 1,
                    candidates[1], -1)

\* SelectionHandler.getBestPosition
getBestPosition(elements, candidates, containerWidth, containerHeight) ==
  bestFrom(elements, candidates, containerWidth, containerHeight, 1,
           candidates[1], -1)

\* a || b for a measured length
OrDefault(a, b) == IF a = 0 \/ isNaN(a) THEN b ELSE a

\* SelectionHandler.positionContainer: the top and left it writes to the
\* style of the container
positionContainer(l) ==
  LET containerHeight == OrDefault(l.measured.height, 30)
      containerWidth == OrDefault(l.measured.width, 60)
      offset == 6
      candidates == getCandidatePositions(l.selectionRect, containerWidth,
                                          containerHeight, offset,
                                          innerWidth, innerHeight)
      bestPosition == getBestPosition(l.elements, candidates,
                                      containerWidth, containerHeight)
  IN [set |-> TRUE, top |-> bestPosition.top, left |-> bestPosition.left]

\* the style of a container before positionContainer: no top, no left
Unpositioned == [set |-> FALSE, top |-> 0, left |-> 0]

\* a selection in the middle of a page without positioned elements, and a
\* toolbar of two buttons
DefaultLayout ==
  [selectionRect |-> DOMRect(90, 40, 0, 20),
   measured |-> [width |-> 60, height |-> 30],
   elements |-> << paragraph >>]

(***************************************************************************)
(* State.                                                                  *)
(***************************************************************************)
VARIABLES
  settings,          \* this.settings
  floatingUI,        \* this.floatingUI: container (0 is null), buttons, isVisible
  selectionTimeout,  \* this.selectionTimeout (0 is null; timer ids are positive)
  timers,            \* pending setTimeout callbacks of the handler, in firing order
  shadowRoot,        \* the overlay containers attached to this.shadowRoot
  runtime,           \* hasRuntime(): chrome.runtime.id is defined
  settingsListener,  \* the onMessage listener for SETTINGS_UPDATED is registered
  getSettingsPending,\* the GET_SETTINGS request of loadSettings awaits its callback
  requests,          \* URLs of OPEN_TAB requests whose callback has not run
  layout,            \* what positionContainer finds: selection rectangle,
                     \* measured container size, elements of the page
  position,          \* the top and left of the style of the container
  page,              \* the document across re-initialisations: the shadow
                     \* hosts attached to it, every SelectionHandler made so
                     \* far, handlerInstance, the pending initialisation timers
  service,           \* the background service: the URLs given to
                     \* chrome.tabs.create whose promise is pending, the
                     \* URLs of the tabs created, the responses sent
  show,              \* the call of showFloatingUI in progress: the statement
                     \* it has reached, its local variable container (0
                     \* when none) and the containers that wait for their
                     \* requestAnimationFrame callback
  channel,           \* the messages sent with chrome.runtime.sendMessage, each
                     \* with the stage it has reached, the tabs it opened and
                     \* the responses sent for it
  options,           \* the options page: its React state settings, the
                     \* content of chrome.storage.sync, the pending
                     \* storage.sync.set calls and the toggles made (history)
  lastEvent          \* the event whose handler ran last, the selection it
                     \* read and what it opened (history)

vars ==
  << settings, floatingUI, selectionTimeout, timers, shadowRoot,
     runtime, settingsListener, getSettingsPending, requests, layout,
     position, page, service, show, channel, options, lastEvent >>

\* the fields the handler's methods read and write, as one value;
\* windowOpens collects the URLs the running handler passes to window.open
World ==
  [ settings |-> settings, floatingUI |-> floatingUI,
    selectionTimeout |-> selectionTimeout, timers |-> timers,
    shadowRoot |-> shadowRoot, requests |-> requests,
    windowOpens |-> <<>> ]

\* Timer handles are opaque numbers: a state is kept with its handles
\* renamed to their place in the firing order, and the handle of a timer
\* that is no longer pending renamed to the first number after them.
RenamedTimers(q) == [i \in 1..Len(q) |-> i]

RenamedHandle(q, h) ==
  IF h = 0 THEN 0
  ELSE IF \E i \in 1..Len(q) : q[i] = h
    THEN CHOOSE i \in 1..Len(q) : q[i] = h
    ELSE Len(q) + 1

\* the state after a method returned w
Commit(w) ==
  /\ settings' = w.settings
  /\ floatingUI' = w.floatingUI
  /\ selectionTimeout' = RenamedHandle(w.timers, w.selectionTimeout)
  /\ timers' = RenamedTimers(w.timers)
  /\ shadowRoot' = w.shadowRoot
  /\ requests' = w.requests

\* a history record: the event, its key/target/provider (for the callback
\* of OPEN_TAB: the outcome of the request), a flag (button
\* click: the handler threw; timer: the timer that fired was the one
\* this.selectionTimeout referred to, i.e. the last scheduled; keydown,
\* click, scroll, selectionchange: the overlay was visible when the event
\* arrived), the selection the handler read (NullSelection when it read
\* none) and the URLs the handler passed to window.open
Event(type, arg, flag, sel, opened) ==
  [type |-> type, arg |-> arg, flag |-> flag, sel |-> sel, opened |-> opened]

(***************************************************************************)
(* Methods of SelectionHandler, as functions from the state before the     *)
(* call to the state after it.                                             *)
(***************************************************************************)
\* the smallest positive number not in S (a fresh element or timer handle)
FreshId(S) == CHOOSE i \in 1..(Cardinality(S) + 1) : i \notin S

Range(s) == {s[i] : i \in 1..Len(s)}

\* clearTimeout(id): the callback, if still pending, will not run
clearTimeout(q, id) == SelectSeq(q, LAMBDA t : t # id)

\* window.setTimeout(() => this.checkSelection(), 10): the new handle
setTimeout(w) == FreshId(Range(w.timers) \cup {w.selectionTimeout})

\* hideFloatingUI that drops its references but leaves the element attached
hideFloatingUI_keepsElement(w) ==
  LET w1 == IF w.floatingUI.container # 0 /\ w.floatingUI.isVisible
              THEN [w EXCEPT
                      !.floatingUI = [container |-> 0, buttons |-> <<>>,
                                      isVisible |-> FALSE]]
              ELSE w
  IN IF w1.selectionTimeout # 0
       THEN [w1 EXCEPT !.timers = clearTimeout(@, w1.selectionTimeout),
                       !.selectionTimeout = 0]
       ELSE w1

\* hideFloatingUI that forgets to reset isVisible
hideFloatingUI_staysVisible(w) ==
  LET w1 == IF w.floatingUI.container # 0 /\ w.floatingUI.isVisible
              THEN [w EXCEPT
                      !.shadowRoot = {c \in @ : c.id # w.floatingUI.container},
                      !.floatingUI = [container |-> 0, buttons |-> <<>>,
                                      isVisible |-> TRUE]]
              ELSE w
  IN IF w1.selectionTimeout # 0
       THEN [w1 EXCEPT !.timers = clearTimeout(@, w1.selectionTimeout),
                       !.selectionTimeout = 0]
       ELSE w1

\* SelectionHandler.hideFloatingUI
hideFloatingUI(w) ==
  LET w1 == IF w.floatingUI.container # 0 /\ w.floatingUI.isVisible
              THEN [w EXCEPT
                      !.shadowRoot = {c \in @ : c.id # w.floatingUI.container},
                      !.floatingUI = [container |-> 0, buttons |-> <<>>,
                                      isVisible |-> FALSE]]
              ELSE w
  IN IF w1.selectionTimeout # 0
       THEN [w1 EXCEPT !.timers = clearTimeout(@, w1.selectionTimeout),
                       !.selectionTimeout = 0]
       ELSE w1

\* SelectionHandler.createButton: the provider and the text its click
\* listener closes over
createButton(provider, selectedText) ==
  [provider |-> provider, selectedText |-> selectedText]

\* buildButtons that tests google before chatgpt
buildButtons_googleFirst(s, selectedText) ==
  (IF s.google THEN << createButton("google", selectedText) >> ELSE <<>>)
  \o (IF s.chatgpt THEN << createButton("chatgpt", selectedText) >> ELSE <<>>)
  \o (IF s.claude THEN << createButton("claude", selectedText) >> ELSE <<>>)

\* the buttons showFloatingUI builds, in the order of its three tests
buildButtons(s, selectedText) ==
  (IF s.chatgpt THEN << createButton("chatgpt", selectedText) >> ELSE <<>>)
  \o (IF s.google THEN << createButton("google", selectedText) >> ELSE <<>>)
  \o (IF s.claude THEN << createButton("claude", selectedText) >> ELSE <<>>)

\* SelectionHandler.showFloatingUI
showFloatingUI(w, selectedText) ==
  IF ~w.settings.enabled THEN w
  ELSE
    LET w1 == hideFloatingUI(w)
        buttons == buildButtons(w1.settings, selectedText)
        \* document.createElement('div'): an element distinct from the old one
        id == FreshId({c.id : c \in w.shadowRoot} \cup {w.floatingUI.container})
        container == [id |-> id, selectedText |-> selectedText,
                      buttons |-> buttons]
    IN [w1 EXCEPT
          !.shadowRoot = @ \cup {container},
          !.floatingUI = [container |-> id, buttons |-> buttons,
                          isVisible |-> TRUE]]

\* checkSelection that tests the text without trimming it
checkSelection_noTrim(w, sel) ==
  IF sel.throws THEN w
  ELSE IF sel.isNull \/ sel.isCollapsed THEN hideFloatingUI(w)
  ELSE LET selectedText == sel.text
       IN IF selectedText = <<>> THEN hideFloatingUI(w)
          ELSE IF isInEditableElement(sel.startContainer) THEN hideFloatingUI(w)
          ELSE showFloatingUI(w, selectedText)

\* SelectionHandler.checkSelection, reading the live selection sel; the
\* method has no try block: an exception of window.getSelection() ends it
\* before it has changed anything
checkSelection(w, sel) ==
  IF sel.throws THEN w
  ELSE IF sel.isNull \/ sel.isCollapsed THEN hideFloatingUI(w)
  ELSE LET selectedText == trim(sel.text)
       IN IF selectedText = <<>> THEN hideFloatingUI(w)
          ELSE IF isInEditableElement(sel.startContainer) THEN hideFloatingUI(w)
          ELSE showFloatingUI(w, selectedText)

\* the body of handleMouseUp and of handleKeyUp past its Escape test
scheduleCheck(w) ==
  LET id == setTimeout(w)
  IN [w EXCEPT !.timers = Append(@, id), !.selectionTimeout = id]

\* handleKeyUp without its Escape test
handleKeyUp_always(w, key) == scheduleCheck(w)

\* SelectionHandler.handleKeyUp
handleKeyUp(w, key) == IF key = "Escape" THEN w ELSE scheduleCheck(w)

\* SelectionHandler.handleSelectionChange
handleSelectionChange(w, sel) ==
  IF sel.throws THEN w
  ELSE IF sel.isNull \/ sel.isCollapsed THEN hideFloatingUI(w) ELSE w

\* container.contains(event.target): the listener is on the document, where
\* the target of an event from inside the shadow tree is the shadow host
containerContains(target) == target \in {"container", "button"}

\* handleDocumentClick with the containment test inverted
handleDocumentClick_inverted(w, target) ==
  IF w.floatingUI.container # 0 /\ containerContains(target)
    THEN hideFloatingUI(w)
    ELSE w

\* SelectionHandler.handleDocumentClick
handleDocumentClick(w, target) ==
  IF w.floatingUI.container # 0 /\ ~containerContains(target)
    THEN hideFloatingUI(w)
    ELSE w

\* handleKeyDown that reacts to another key than Escape
handleKeyDown_wrongKey(w, key) ==
  IF key = "Shift" /\ w.floatingUI.isVisible THEN hideFloatingUI(w) ELSE w

\* SelectionHandler.handleKeyDown
handleKeyDown(w, key) ==
  IF key = "Escape" /\ w.floatingUI.isVisible THEN hideFloatingUI(w) ELSE w

\* SelectionHandler.handleScroll
handleScroll(w) == hideFloatingUI(w)

\* SelectionHandler.openProvider; hasRuntime and sendThrows are the outcomes
\* of hasRuntime() and of chrome.runtime.sendMessage.  A URIError of
\* encodeURIComponent leaves the method before anything else is done.
openProvider(w, provider, text, hasRuntime, sendThrows) ==
  LET enc == encodeURIComponent(text)
      url == PROVIDER_URLS(provider, enc.value)
      w1 == IF hasRuntime /\ ~sendThrows
              THEN [w EXCEPT !.requests = Append(@, url)]
              ELSE [w EXCEPT !.windowOpens = Append(@, url)]
  IN IF enc.threw THEN w ELSE hideFloatingUI(w1)

\* a click listener that builds the URL from the selection at click time
onButtonClick_liveSelection(w, b, sel, hasRuntime, sendThrows) ==
  openProvider(w, b.provider, trim(sel.text), hasRuntime, sendThrows)

\* the click listener createButton gives the button b: it stops the
\* propagation (the document's click listener does not run) and calls
\* openProvider with the provider and the text it closed over; sel, the
\* selection at the time of the click, is not read
onButtonClick(w, b, sel, hasRuntime, sendThrows) ==
  openProvider(w, b.provider, b.selectedText, hasRuntime, sendThrows)

\* a SETTINGS_UPDATED branch that stores the settings and leaves the overlay
onSettingsUpdated_noHide(w, newSettings) ==
  [w EXCEPT !.settings = newSettings]

\* the SETTINGS_UPDATED branch of the onMessage listener that init registers
onSettingsUpdated(w, newSettings) ==
  hideFloatingUI([w EXCEPT !.settings = newSettings])

\* the callback of loadSettings; response is null or a Settings value
onGetSettingsResponse(w, lastError, isNull, response) ==
  IF lastError THEN w
  ELSE IF isNull THEN w
  ELSE [w EXCEPT !.settings = response]

\* the callback openProvider passes to sendMessage, for the request of url;
\* it tests chrome.runtime.lastError only and never reads its _response
onOpenTabResponse(w, url, lastError) ==
  IF lastError THEN [w EXCEPT !.windowOpens = Append(@, url)] ELSE w

(***************************************************************************)
(* The life of the document (part_002:832-876).  A page holds the shadow   *)
(* hosts attached to document.body (a host is named by the number of the   *)
(* handler that made it), every SelectionHandler constructed so far (its   *)
(* listeners stay registered: nothing removes them on re-initialisation),  *)
(* the variable handlerInstance (0 is null) and the pending timers of      *)
(* initialisation: "initialize" is the 100 ms timer of the pageshow        *)
(* listener, "construct" the 500 ms timer of initializeExtension.  Two     *)
(* history fields: staleRestore (a pageshow with persisted = true arrived   *)
(* while a host was attached), unloaded (beforeunload ran after the last   *)
(* handler was constructed) and cleaned (the handlers whose cleanup has    *)
(* run).                                                                   *)
(***************************************************************************)
\* the fields of a SelectionHandler after its constructor
NewHandler ==
  [ settings |-> getDefaultSettings,
    floatingUI |-> [container |-> 0, buttons |-> <<>>, isVisible |-> FALSE],
    selectionTimeout |-> 0, timers |-> <<>>, shadowRoot |-> {},
    requests |-> <<>>, windowOpens |-> <<>> ]

\* handlerInstance = new SelectionHandler(): createShadowHost appends the
\* host to document.body
construct(p) ==
  LET h == Len(p.handlers) + 1
  IN [p EXCEPT !.handlers = Append(@, NewHandler),
               !.hosts = @ \cup {h},
               !.handlerInstance = h,
               !.unloaded = FALSE]

\* initializeExtension
initializeExtension(p) ==
  LET p1 == [p EXCEPT !.handlerInstance = 0, !.hosts = {}]
  IN IF p1.isClaudeAI
       THEN [p1 EXCEPT !.tasks = Append(@, "construct")]
       ELSE construct(p1)

\* the pageshow listener, for an event with persisted = true
onPageShow(p) ==
  [p EXCEPT !.tasks = Append(@, "initialize"),
            !.staleRestore = @ \/ p.hosts # {}]

\* cleanup that hides the overlay and leaves the host in the document
cleanup_keepsHost(p, h) ==
  [p EXCEPT !.handlers[h] = hideFloatingUI(@),
            !.cleaned = @ \cup {h}]

\* SelectionHandler.cleanup of handler h: hide, remove the host when it is
\* attached.  Each removeEventListener call is given a function that bind
\* has just made, which is no registered listener: no listener is removed.
cleanup(p, h) ==
  [p EXCEPT !.handlers[h] = hideFloatingUI(@),
            !.hosts = @ \ {h},
            !.cleaned = @ \cup {h}]

\* the beforeunload listeners of the handlers h, h + 1, ... run in the order
\* of their registration
RECURSIVE cleanupFrom(_, _)
cleanupFrom(p, h) ==
  IF h > Len(p.handlers) THEN p ELSE cleanupFrom(cleanup(p, h), h + 1)

\* beforeunload: every handler constructed so far registered a listener
\* for it
cleanupAll(p) == [cleanupFrom(p, 1) EXCEPT !.unloaded = TRUE]

\* the script has been evaluated in a loaded document
LoadedPage(isClaudeAI) ==
  initializeExtension(
    [isClaudeAI |-> isClaudeAI, hosts |-> {}, handlers |-> <<>>,
     handlerInstance |-> 0, tasks |-> <<>>, staleRestore |-> FALSE,
     unloaded |-> FALSE, cleaned |-> {}])

\* a page that is not claude.ai, loaded once
SinglePage == LoadedPage(FALSE)

\* the sequence without its element i
Without(q, i) == SubSeq(q, 1, i - 1) \o SubSeq(q, i + 1, Len(q))

\* the overlay containers attached to the document: those in the shadow
\* root of a host that is attached
AttachedOverlays(p) ==
  UNION { { << h, c.id >> : c \in p.handlers[h].shadowRoot } : h \in p.hosts }

\* the background service has received no message
NoService == [creating |-> <<>>, tabs |-> <<>>, replies |-> <<>>]

\* no call of showFloatingUI is in progress, no animation frame is awaited
NotShowing == [pc |-> "idle", container |-> 0, frames |-> {}]

\* no message has been sent
NoChannel == << >>

\* the options page has loaded the stored settings s and no toggle was made
LoadedOptions(s) ==
  [settings |-> s, stored |-> s, saves |-> << >>, intended |-> s,
   failed |-> FALSE, toggles |-> 0]

\* the options page of a fresh installation
NoOptions == LoadedOptions(optionsDefaults)

(***************************************************************************)
(* Initial state: the constructor has run (default settings, no overlay,   *)
(* no timer) and init() has sent GET_SETTINGS when the runtime exists.     *)
(***************************************************************************)
Init ==
  /\ settings = getDefaultSettings
  /\ floatingUI = [container |-> 0, buttons |-> <<>>, isVisible |-> FALSE]
  /\ selectionTimeout = 0
  /\ timers = <<>>
  /\ shadowRoot = {}
  /\ runtime \in BOOLEAN
  /\ settingsListener = runtime
  /\ getSettingsPending = runtime
  /\ requests = <<>>
  /\ layout = DefaultLayout
  /\ position = Unpositioned
  /\ page = SinglePage
  /\ service = NoService
  /\ show = NotShowing
  /\ channel = NoChannel
  /\ options = NoOptions
  /\ lastEvent = Event("init", "", FALSE, NullSelection, <<>>)

(***************************************************************************)
(* Actions: one per event delivered to the handler.                        *)
(***************************************************************************)
Keys == {"Escape", "Shift"}

\* what a document-level listener sees as event.target: a node of the page,
\* or the shadow host when the event comes from inside the overlay
DocumentTargets == {"page", "shadowHost"}

TargetPossible(target) == target = "shadowHost" => shadowRoot # {}

\* a handler that read the selection sel ran and left the state w
HandledWith(w, type, arg, flag, sel) ==
  /\ Commit(w)
  /\ lastEvent' = Event(type, arg, flag, sel, w.windowOpens)
  /\ UNCHANGED << runtime, settingsListener, layout, position, page,
                  service, show, channel, options >>

\* a handler that does not read the selection ran and left the state w
Handled(w, type, arg, flag) == HandledWith(w, type, arg, flag, NullSelection)

\* mouseup on the document
MouseUp ==
  /\ Len(timers) < MaxTimers
  /\ Handled(scheduleCheck(World), "mouseup", "", FALSE)
  /\ UNCHANGED getSettingsPending

\* keyup on the document
KeyUp ==
  \E key \in Keys :
    /\ key # "Escape" => Len(timers) < MaxTimers
    /\ Handled(handleKeyUp(World, key), "keyup", key, FALSE)
    /\ UNCHANGED getSettingsPending

\* keydown on the document
KeyDown ==
  \E key \in Keys :
    /\ Handled(handleKeyDown(World, key), "keydown", key, floatingUI.isVisible)
    /\ UNCHANGED getSettingsPending

\* mousedown / pointerdown: init registers no listener for it
PointerDown ==
  \E target \in DocumentTargets :
    /\ TargetPossible(target)
    /\ Handled(World, "pointerdown", target, floatingUI.isVisible)
    /\ UNCHANGED getSettingsPending

\* click reaching the document listener (a click on a button does not: its
\* listener stops the propagation)
DocumentClick ==
  \E target \in DocumentTargets :
    /\ TargetPossible(target)
    /\ Handled(handleDocumentClick(World, target), "click", target,
               floatingUI.isVisible)
    /\ UNCHANGED getSettingsPending

\* scroll, captured at the document
Scroll ==
  /\ Handled(handleScroll(World), "scroll", "", floatingUI.isVisible)
  /\ UNCHANGED getSettingsPending

\* selectionchange on the document
SelectionChange ==
  \E sel \in Selections :
    /\ HandledWith(handleSelectionChange(World, sel), "selectionchange", "",
                   floatingUI.isVisible, sel)
    /\ UNCHANGED getSettingsPending

\* the oldest pending timer fires: its callback runs checkSelection
TimerFire ==
  \E sel \in Selections :
    /\ timers # <<>>
    /\ HandledWith(checkSelection([World EXCEPT !.timers = Tail(@)], sel),
                   "timer", "", Head(timers) = selectionTimeout, sel)
    /\ UNCHANGED getSettingsPending

\* the selections the document can hold when a button is clicked: the
\* overlay stays while the selection is extended or replaced by a range
ClickSelections ==
  { CollapsedSelection,
    RangeSelection(<< " ", "a", " ", "&", " " >>, "pText"),
    RangeSelection(<< "HS" >>, "pText") }

\* click on a button of the attached overlay, the document holding the
\* selection sel
ButtonClick ==
  \E c \in shadowRoot : \E i \in 1..Len(c.buttons) : \E sendThrows \in BOOLEAN :
  \E sel \in ClickSelections :
    LET b == c.buttons[i] IN
    /\ sendThrows => runtime
    /\ Len(requests) < MaxRequests
    /\ HandledWith(onButtonClick(World, b, sel, runtime, sendThrows),
                   "buttonClick", b.provider,
                   encodeURIComponent(b.selectedText).threw, sel)
    /\ UNCHANGED getSettingsPending

\* the callback of an OPEN_TAB request runs: with lastError when no
\* response arrived, otherwise with the response of the background service
OpenTabResponse ==
  \E i \in 1..Len(requests) : \E lastError \in BOOLEAN :
  \E createRejects \in BOOLEAN :
    LET w == [World EXCEPT !.requests =
                SubSeq(@, 1, i - 1) \o SubSeq(@, i + 1, Len(@))]
        response == handleMessage(requests[i], createRejects)
        outcome == IF lastError THEN "lastError"
                   ELSE IF response.success THEN "success"
                   ELSE "failure"
    IN
    /\ lastError => ~createRejects
    /\ Handled(onOpenTabResponse(w, requests[i], lastError),
               "openTabResponse", outcome, lastError)
    /\ UNCHANGED getSettingsPending

\* a SETTINGS_UPDATED message reaches the listener
SettingsUpdated ==
  \E s \in SettingsValues :
    /\ settingsListener
    /\ runtime
    /\ Handled(onSettingsUpdated(World, s), "settingsUpdated", "",
               floatingUI.isVisible)
    /\ UNCHANGED getSettingsPending

\* the callback of GET_SETTINGS runs
GetSettingsResponse ==
  \E lastError \in BOOLEAN : \E isNull \in BOOLEAN : \E s \in SettingsValues :
    /\ getSettingsPending
    /\ (lastError \/ isNull) => s = getDefaultSettings
    /\ lastError => ~isNull
    /\ getSettingsPending' = FALSE
    /\ Handled(onGetSettingsResponse(World, lastError, isNull, s),
               "getSettingsResponse", "", lastError)

\* the extension is reloaded or removed: chrome.runtime.id becomes undefined
RuntimeInvalidated ==
  /\ runtime
  /\ runtime' = FALSE
  /\ UNCHANGED << settings, floatingUI, selectionTimeout, timers, shadowRoot,
                  settingsListener, getSettingsPending, requests, layout,
                  position, page, service, show, channel, options,
                  lastEvent >>

Next ==
  \/ MouseUp
  \/ KeyUp
  \/ KeyDown
  \/ PointerDown
  \/ DocumentClick
  \/ Scroll
  \/ SelectionChange
  \/ TimerFire
  \/ ButtonClick
  \/ OpenTabResponse
  \/ SettingsUpdated
  \/ GetSettingsResponse
  \/ RuntimeInvalidated

Spec == Init /\ [][Next]_vars

\* Spec with the event loop running every timer callback that stays
\* pending: a timer set by setTimeout and not cleared fires
SpecLive == Init /\ [][Next]_vars /\ WF_vars(TimerFire)

\* a SETTINGS_UPDATED message with any settings value (the options page can
\* save every combination of the four switches) reaches the listener
SettingsUpdatedAny ==
  \E s \in AllSettings :
    /\ settingsListener
    /\ runtime
    /\ Handled(onSettingsUpdated(World, s), "settingsUpdated", "",
               floatingUI.isVisible)
    /\ UNCHANGED getSettingsPending

\* the handler under every settings value: selections are evaluated while
\* settings messages arrive
NextSettings ==
  \/ MouseUp
  \/ TimerFire
  \/ SettingsUpdatedAny
  \/ GetSettingsResponse
  \/ RuntimeInvalidated

SpecSettings == Init /\ [][NextSettings]_vars

(***************************************************************************)
(* The document across re-initialisations, with every handler it holds.    *)
(***************************************************************************)
\* the selections the evaluations of this specification read
PageSelections ==
  { CollapsedSelection, RangeSelection(<< " ", "a", " ", "&", " " >>, "pText") }

InitLifecycle ==
  /\ settings = getDefaultSettings
  /\ floatingUI = [container |-> 0, buttons |-> <<>>, isVisible |-> FALSE]
  /\ selectionTimeout = 0
  /\ timers = <<>>
  /\ shadowRoot = {}
  /\ runtime = FALSE
  /\ settingsListener = FALSE
  /\ getSettingsPending = FALSE
  /\ requests = <<>>
  /\ layout = DefaultLayout
  /\ position = Unpositioned
  /\ \E isClaudeAI \in BOOLEAN : page = LoadedPage(isClaudeAI)
  /\ service = NoService
  /\ show = NotShowing
  /\ channel = NoChannel
  /\ options = NoOptions
  /\ lastEvent = Event("init", "", FALSE, NullSelection, <<>>)

\* an event of the document's life was handled and left the page p
PageHandled(p, type, arg, flag, sel) ==
  /\ page' = p
  /\ lastEvent' = Event(type, arg, flag, sel, <<>>)
  /\ UNCHANGED << settings, floatingUI, selectionTimeout, timers, shadowRoot,
                  runtime, settingsListener, getSettingsPending, requests,
                  layout, position, service, show, channel, options >>

\* the page comes back from the back/forward cache: pageshow, persisted
PageShow ==
  /\ Len(page.tasks) < MaxTasks
  /\ PageHandled(onPageShow(page), "pageshow", "", FALSE, NullSelection)

\* the page is left: beforeunload reaches the cleanup of every handler; the
\* flag tells whether an overlay was attached to the document
BeforeUnload ==
  /\ page.handlers # <<>>
  /\ PageHandled(cleanupAll(page), "beforeunload", "",
                 AttachedOverlays(page) # {}, NullSelection)

\* the oldest 100 ms timer fires (it may pass 500 ms timers set before it)
RunInitialize ==
  \E i \in 1..Len(page.tasks) :
    /\ page.tasks[i] = "initialize"
    /\ \A j \in 1..(i - 1) : page.tasks[j] # "initialize"
    /\ Len(page.handlers) < MaxHandlers
    /\ PageHandled(initializeExtension([page EXCEPT !.tasks = Without(@, i)]),
                   "initialize", "", FALSE, NullSelection)

\* a 500 ms timer fires, no timer set before it pending
RunConstruct ==
  /\ page.tasks # <<>>
  /\ Head(page.tasks) = "construct"
  /\ Len(page.handlers) < MaxHandlers
  /\ PageHandled(construct([page EXCEPT !.tasks = Tail(@)]),
                 "construct", "", FALSE, NullSelection)

\* mouseup: the listener of every handler constructed so far runs
PageMouseUp ==
  /\ page.handlers # <<>>
  /\ \A h \in 1..Len(page.handlers) : page.handlers[h].timers = <<>>
  /\ PageHandled([page EXCEPT !.handlers =
                    [h \in 1..Len(@) |-> scheduleCheck(@[h])]],
                 "mouseup", "", FALSE, NullSelection)

\* scroll: the listener of every handler constructed so far runs
PageScroll ==
  /\ page.handlers # <<>>
  /\ PageHandled([page EXCEPT !.handlers =
                    [h \in 1..Len(@) |-> handleScroll(@[h])]],
                 "scroll", "", FALSE, NullSelection)

\* the debounce timer of the oldest handler that has one fires; arg tells
\* whether that handler is the one made last
PageTimerFire ==
  \E h \in 1..Len(page.handlers) : \E sel \in PageSelections :
    /\ page.handlers[h].timers # <<>>
    /\ \A g \in 1..(h - 1) : page.handlers[g].timers = <<>>
    /\ PageHandled(
         [page EXCEPT !.handlers[h] =
            checkSelection([@ EXCEPT !.timers = Tail(@)], sel)],
         "timer", IF h = Len(page.handlers) THEN "newest" ELSE "older",
         TRUE, sel)

NextLifecycle ==
  \/ PageShow
  \/ BeforeUnload
  \/ RunInitialize
  \/ RunConstruct
  \/ PageMouseUp
  \/ PageScroll
  \/ PageTimerFire

SpecLifecycle == InitLifecycle /\ [][NextLifecycle]_vars

(***************************************************************************)
(* The placement of a container, for every layout it can meet: the         *)
(* container has been appended for measurement, then positionContainer     *)
(* writes its top and left.                                                *)
(***************************************************************************)
InitPlacement ==
  /\ settings = getDefaultSettings
  /\ floatingUI = [container |-> 0, buttons |-> <<>>, isVisible |-> FALSE]
  /\ selectionTimeout = 0
  /\ timers = <<>>
  /\ shadowRoot = {}
  /\ runtime = FALSE
  /\ settingsListener = FALSE
  /\ getSettingsPending = FALSE
  /\ requests = <<>>
  /\ layout \in Layouts
  /\ position = Unpositioned
  /\ page = SinglePage
  /\ service = NoService
  /\ show = NotShowing
  /\ channel = NoChannel
  /\ options = NoOptions
  /\ lastEvent = Event("init", "", FALSE, NullSelection, <<>>)

\* positionContainer runs on the container just appended
PositionContainer ==
  /\ ~position.set
  /\ position' = positionContainer(layout)
  /\ lastEvent' = Event("positionContainer", "", FALSE, NullSelection, <<>>)
  /\ UNCHANGED << settings, floatingUI, selectionTimeout, timers, shadowRoot,
                  runtime, settingsListener, getSettingsPending, requests,
                  layout, page, service, show, channel, options >>

NextPlacement == PositionContainer

SpecPlacement == InitPlacement /\ [][NextPlacement]_vars

(***************************************************************************)
(* The background service: an OPEN_TAB message arrives, openProviderTab    *)
(* validates its URL and either throws (the response follows in the same   *)
(* task's microtasks) or calls chrome.tabs.create, whose promise settles   *)
(* in a later task.                                                        *)
(***************************************************************************)
\* the URLs a message can carry: each beginning with the query "a", the
\* empty string, and a string that is no URL
MessageUrls ==
  { << "https://www.google.com/search?q=", "a" >>,
    << "https://chatgpt.com/?q=", "a" >>,
    << "https://claude.ai/new?q=", "a" >>,
    << "HTTPS://Claude.AI/new?q=", "a" >>,
    << "http://www.google.com/search?q=", "a" >>,
    << "https://evil.example/?q=", "a" >>,
    << "https://claude.ai.evil.example/new?q=", "a" >>,
    << "javascript:alert(1)//", "a" >>,
    << "claude.ai/new?q=", "a" >>,
    <<>> }

InitBackground ==
  /\ settings = getDefaultSettings
  /\ floatingUI = [container |-> 0, buttons |-> <<>>, isVisible |-> FALSE]
  /\ selectionTimeout = 0
  /\ timers = <<>>
  /\ shadowRoot = {}
  /\ runtime = FALSE
  /\ settingsListener = FALSE
  /\ getSettingsPending = FALSE
  /\ requests = <<>>
  /\ layout = DefaultLayout
  /\ position = Unpositioned
  /\ page = SinglePage
  /\ service = NoService
  /\ show = NotShowing
  /\ channel = NoChannel
  /\ options = NoOptions
  /\ lastEvent = Event("init", "", FALSE, NullSelection, <<>>)

\* the background service changed to s
ServiceBecomes(s) ==
  /\ service' = s
  /\ UNCHANGED << settings, floatingUI, selectionTimeout, timers, shadowRoot,
                  runtime, settingsListener, getSettingsPending, requests,
                  layout, position, page, show, channel, options,
                  lastEvent >>

\* handleMessage receives { type: 'OPEN_TAB', url }: openProviderTab runs
\* up to its await; a URL that is not valid is answered at once
OpenTabMessage ==
  \E url \in MessageUrls :
    /\ Len(service.creating) + Len(service.replies) < MaxMessages
    /\ ServiceBecomes(
         IF validateUrl(url) = <<>>
           THEN [service EXCEPT !.replies =
                   Append(@, [url |-> url,
                              success |-> handleMessage(url, FALSE).success])]
           ELSE [service EXCEPT !.creating = Append(@, validateUrl(url))])

\* the promise of a chrome.tabs.create call settles: the tab exists unless
\* the promise is rejected; the response is sent
TabsCreateSettles ==
  \E i \in 1..Len(service.creating) : \E createRejects \in BOOLEAN :
    LET url == service.creating[i] IN
    ServiceBecomes(
      [service EXCEPT
         !.creating = Without(@, i),
         !.tabs = IF createRejects THEN @ ELSE Append(@, url),
         !.replies = Append(@, [url |-> url,
                                success |-> handleMessage(url, createRejects).success])])

NextBackground ==
  \/ OpenTabMessage
  \/ TabsCreateSettles

SpecBackground == InitBackground /\ [][NextBackground]_vars

(***************************************************************************)
(* showFloatingUI statement by statement (part_002:441-494).  A container  *)
(* here has, besides its text and buttons, the visibility of its style,    *)
(* the top and left positionContainer wrote (position.set tells that it    *)
(* did) and the class 'visible'.  The statements of one call run in one    *)
(* task: no other handler runs between them, and the call ends early when  *)
(* getSelectionEndRect or positionContainer raises an exception, as the    *)
(* method and its callers have no try block around them.                   *)
(***************************************************************************)
\* a container created with the style visible
createContainer_visible(id, selectedText, buttons) ==
  [id |-> id, selectedText |-> selectedText, buttons |-> buttons,
   visibility |-> "", position |-> Unpositioned, visibleClass |-> FALSE]

\* the container showFloatingUI creates: style.visibility = 'hidden'
createContainer(id, selectedText, buttons) ==
  [id |-> id, selectedText |-> selectedText, buttons |-> buttons,
   visibility |-> "hidden", position |-> Unpositioned, visibleClass |-> FALSE]

\* checkSelection reaches the statements of showFloatingUI past its test of
\* settings.enabled
reachesShow(w, sel) ==
  /\ ~sel.throws
  /\ ~(sel.isNull \/ sel.isCollapsed)
  /\ trim(sel.text) # <<>>
  /\ ~isInEditableElement(sel.startContainer)
  /\ w.settings.enabled

\* the element document.createElement returns: one that is not in the
\* shadow root, not tracked and not awaited by an animation frame callback
newElement(w, frames) ==
  FreshId({c.id : c \in w.shadowRoot} \cup {w.floatingUI.container} \cup frames)

\* showFloatingUI from the hide to shadowRoot.appendChild(container)
attachContainer(w, selectedText, frames) ==
  LET w1 == hideFloatingUI(w)
      buttons == buildButtons(w1.settings, selectedText)
  IN [w1 EXCEPT !.shadowRoot =
        @ \cup {createContainer(newElement(w, frames), selectedText, buttons)}]

\* positionContainer(container, rect) on the container id
applyPosition(w, id, l) ==
  [w EXCEPT !.shadowRoot =
     { IF c.id = id THEN [c EXCEPT !.position = positionContainer(l)] ELSE c
       : c \in @ }]

\* container.style.visibility = ''
reveal(w, id) ==
  [w EXCEPT !.shadowRoot =
     { IF c.id = id THEN [c EXCEPT !.visibility = ""] ELSE c : c \in @ }]

\* the three assignments to this.floatingUI
storeReferences(w, id) ==
  LET c == CHOOSE c \in w.shadowRoot : c.id = id
  IN [w EXCEPT !.floatingUI = [container |-> id, buttons |-> c.buttons,
                              isVisible |-> TRUE]]

\* the requestAnimationFrame callbacks of the containers in frames:
\* container.classList.add('visible'), attached or not
addVisibleClass(w, frames) ==
  [w EXCEPT !.shadowRoot =
     { IF c.id \in frames THEN [c EXCEPT !.visibleClass = TRUE] ELSE c
       : c \in @ }]

\* the containers in the shadow root that this.floatingUI does not refer to
Orphans == { c \in shadowRoot : c.id # floatingUI.container }

InitShow ==
  /\ settings = getDefaultSettings
  /\ floatingUI = [container |-> 0, buttons |-> <<>>, isVisible |-> FALSE]
  /\ selectionTimeout = 0
  /\ timers = <<>>
  /\ shadowRoot = {}
  /\ runtime = FALSE
  /\ settingsListener = FALSE
  /\ getSettingsPending = FALSE
  /\ requests = <<>>
  /\ layout = DefaultLayout
  /\ position = Unpositioned
  /\ page = SinglePage
  /\ service = NoService
  /\ show = NotShowing
  /\ channel = NoChannel
  /\ options = NoOptions
  /\ lastEvent = Event("init", "", FALSE, NullSelection, <<>>)

\* a statement or a handler ran and left the handler as w and the call of
\* showFloatingUI as sh
ShowHandled(w, sh, type, arg, flag, sel) ==
  /\ Commit(w)
  /\ show' = sh
  /\ lastEvent' = Event(type, arg, flag, sel, <<>>)
  /\ UNCHANGED << runtime, settingsListener, getSettingsPending, layout,
                  position, page, service, channel, options >>

\* mouseup on the document
ShowMouseUp ==
  /\ show.pc = "idle"
  /\ Len(timers) < MaxTimers
  /\ ShowHandled(scheduleCheck(World), show, "mouseup", "", FALSE, NullSelection)

\* scroll, captured at the document
ShowScroll ==
  /\ show.pc = "idle"
  /\ ShowHandled(handleScroll(World), show, "scroll", "", floatingUI.isVisible,
                 NullSelection)

\* the oldest pending timer fires: checkSelection runs and, for a selection
\* to show, showFloatingUI runs up to the attachment of its container
ShowTimerFire ==
  \E sel \in PageSelections :
    LET w == [World EXCEPT !.timers = Tail(@)] IN
    /\ show.pc = "idle"
    /\ timers # <<>>
    /\ IF reachesShow(w, sel)
         THEN /\ Cardinality(Orphans) < MaxOrphans
              /\ Cardinality(show.frames) < MaxFrames
              /\ ShowHandled(attachContainer(w, trim(sel.text), show.frames),
                             [show EXCEPT !.pc = "attached",
                                          !.container = newElement(w, show.frames)],
                             "timer", "attached", Head(timers) = selectionTimeout,
                             sel)
         ELSE ShowHandled(checkSelection(w, sel), show, "timer", "",
                          Head(timers) = selectionTimeout, sel)

\* const rect = this.getSelectionEndRect(selection, range), or an exception
\* that ends the call and the timer callback
ShowReadRect ==
  \E throws \in BOOLEAN :
    /\ show.pc = "attached"
    /\ ShowHandled(World,
                   IF throws THEN [show EXCEPT !.pc = "idle", !.container = 0]
                             ELSE [show EXCEPT !.pc = "measured"],
                   "getSelectionEndRect", IF throws THEN "threw" ELSE "",
                   FALSE, lastEvent.sel)

\* this.positionContainer(container, rect), or an exception of one of its
\* DOM reads (getBoundingClientRect, elementsFromPoint, getComputedStyle)
\* before it has written top and left
ShowPosition ==
  \E throws \in BOOLEAN :
    /\ show.pc = "measured"
    /\ ShowHandled(IF throws THEN World
                             ELSE applyPosition(World, show.container, layout),
                   IF throws THEN [show EXCEPT !.pc = "idle", !.container = 0]
                             ELSE [show EXCEPT !.pc = "positioned"],
                   "positionContainer", IF throws THEN "threw" ELSE "",
                   FALSE, lastEvent.sel)

\* container.style.visibility = ''
ShowReveal ==
  /\ show.pc = "positioned"
  /\ ShowHandled(reveal(World, show.container),
                 [show EXCEPT !.pc = "revealed"],
                 "reveal", "", FALSE, lastEvent.sel)

\* the references are stored and the animation frame is requested: the
\* call returns
ShowStoreReferences ==
  /\ show.pc = "revealed"
  /\ ShowHandled(storeReferences(World, show.container),
                 [show EXCEPT !.pc = "idle", !.container = 0,
                              !.frames = @ \cup {show.container}],
                 "storeReferences", "", FALSE, lastEvent.sel)

\* the next animation frame: the callbacks requested since the last one run
AnimationFrame ==
  /\ show.pc = "idle"
  /\ show.frames # {}
  /\ ShowHandled(addVisibleClass(World, show.frames),
                 [show EXCEPT !.frames = {}],
                 "animationFrame", "", FALSE, NullSelection)

NextShow ==
  \/ ShowMouseUp
  \/ ShowScroll
  \/ ShowTimerFire
  \/ ShowReadRect
  \/ ShowPosition
  \/ ShowReveal
  \/ ShowStoreReferences
  \/ AnimationFrame

SpecShow == InitShow /\ [][NextShow]_vars

(***************************************************************************)
(* The messages between the content script and the background service.    *)
(* A message goes through stages: "sent" (on its way to the background),   *)
(* "creating" (OPEN_TAB: chrome.tabs.create is pending), "reading"         *)
(* (GET_SETTINGS: getSettings is pending), "answered" (sendResponse was    *)
(* called), "closed" (handleMessage returned false: no response will       *)
(* come), "failed" (the port closed before a response: the sender's        *)
(* callback will find chrome.runtime.lastError set) and "done" (the        *)
(* sender's callback has run, or the click opened the URL directly).       *)
(* tabs counts the tabs chrome.tabs.create opened for the message, direct  *)
(* the calls of window.open, responses the calls of sendResponse.          *)
(***************************************************************************)
Message(type, url, click, stage, direct) ==
  [type |-> type, url |-> url, click |-> click, stage |-> stage,
   tabs |-> 0, direct |-> direct, responses |-> 0, success |-> FALSE,
   created |-> FALSE, rejected |-> FALSE, isNull |-> FALSE,
   value |-> defaultSettings]

\* the texts an overlay can be built with
ButtonTexts == { << "a" >>, << "a", " ", "&" >> }

\* OPEN_TAB URLs another sender than a button can put into a message
ForeignUrls ==
  { << "https://evil.example/?q=", "a" >>,
    << "https://claude.ai/new?q=", "a" >> }

\* what the database can hold under 'userSettings'
StoredSettings ==
  { [enabled |-> FALSE],
    [enabled |-> TRUE, chatgpt |-> FALSE, google |-> FALSE, claude |-> TRUE] }

InitMessaging ==
  /\ settings = getDefaultSettings
  /\ floatingUI = [container |-> 0, buttons |-> <<>>, isVisible |-> FALSE]
  /\ selectionTimeout = 0
  /\ timers = <<>>
  /\ shadowRoot = {}
  /\ runtime = FALSE
  /\ settingsListener = FALSE
  /\ getSettingsPending = FALSE
  /\ requests = <<>>
  /\ layout = DefaultLayout
  /\ position = Unpositioned
  /\ page = SinglePage
  /\ service = NoService
  /\ show = NotShowing
  /\ channel = NoChannel
  /\ options = NoOptions
  /\ lastEvent = Event("init", "", FALSE, NullSelection, <<>>)

\* the messages changed to c and the settings of the content script to s
ChannelBecomes(c, s) ==
  /\ channel' = c
  /\ settings' = s
  /\ UNCHANGED << floatingUI, selectionTimeout, timers, shadowRoot, runtime,
                  settingsListener, getSettingsPending, requests, layout,
                  position, page, service, show, options, lastEvent >>

\* a click on a button of the overlay: openProvider sends OPEN_TAB, or
\* opens the URL itself when there is no runtime or sendMessage throws
ClickSends ==
  \E provider \in {"google", "chatgpt", "claude"} : \E text \in ButtonTexts :
  \E hasRuntime \in BOOLEAN : \E sendThrows \in BOOLEAN :
    LET w == openProvider(World, provider, text, hasRuntime, sendThrows) IN
    /\ Len(channel) < MaxSent
    /\ sendThrows => hasRuntime
    /\ ChannelBecomes(
         IF w.requests # <<>>
           THEN Append(channel, Message("OPEN_TAB", w.requests[1], TRUE, "sent", 0))
           ELSE Append(channel, Message("OPEN_TAB", w.windowOpens[1], TRUE, "done", 1)),
         settings)

\* loadSettings of a handler whose runtime exists sends GET_SETTINGS
LoadSettingsSends ==
  /\ Len(channel) < MaxSent
  /\ \A i \in 1..Len(channel) : channel[i].type # "GET_SETTINGS"
  /\ ChannelBecomes(Append(channel, Message("GET_SETTINGS", <<>>, FALSE, "sent", 0)),
                    settings)

\* another page of the extension sends a message: OPEN_TAB with any URL,
\* SETTINGS_UPDATED, or a type handleMessage does not know
OtherSends ==
  \/ \E url \in ForeignUrls :
       /\ Len(channel) < MaxSent
       /\ ChannelBecomes(Append(channel, Message("OPEN_TAB", url, FALSE, "sent", 0)),
                         settings)
  \/ \E type \in {"SETTINGS_UPDATED", "PING"} :
       /\ Len(channel) < MaxSent
       /\ ChannelBecomes(Append(channel, Message(type, <<>>, FALSE, "sent", 0)),
                         settings)

\* BackgroundService.handleMessage runs for a message: OPEN_TAB calls
\* openProviderTab, which is rejected at once for a URL that is not valid
\* and otherwise awaits chrome.tabs.create; GET_SETTINGS calls getSettings;
\* any other type returns false
Receive ==
  \E i \in 1..Len(channel) :
    LET m == channel[i] IN
    /\ m.stage = "sent"
    /\ ChannelBecomes(
         [channel EXCEPT ![i] =
            IF ~handleMessageReturns(m.type) THEN [m EXCEPT !.stage = "closed"]
            ELSE IF m.type = "GET_SETTINGS" THEN [m EXCEPT !.stage = "reading"]
            ELSE IF validateUrl(m.url) = <<>>
              THEN [m EXCEPT !.stage = "answered",
                             !.responses = @ + 1,
                             !.success = handleMessage(m.url, FALSE).success]
              ELSE [m EXCEPT !.stage = "creating"]],
         settings)

\* the promise of chrome.tabs.create settles and the response is sent
CreateSettles ==
  \E i \in 1..Len(channel) : \E createRejects \in BOOLEAN :
    LET m == channel[i] IN
    /\ m.stage = "creating"
    /\ ChannelBecomes(
         [channel EXCEPT ![i] =
            [m EXCEPT !.stage = "answered",
                      !.tabs = IF createRejects THEN @ ELSE @ + 1,
                      !.created = ~createRejects,
                      !.responses = @ + 1,
                      !.success = handleMessage(m.url, createRejects).success]],
         settings)

\* getSettings settles and the response is sent
GetSettingsSettles ==
  \E i \in 1..Len(channel) :
  \E openFails \in BOOLEAN : \E transactionThrows \in BOOLEAN :
  \E readFails \in BOOLEAN : \E hasStored \in BOOLEAN : \E stored \in StoredSettings :
    LET m == channel[i]
        outcome == getSettings(openFails, transactionThrows, readFails, hasStored, stored)
        response == getSettingsResponse(outcome)
    IN
    /\ m.stage = "reading"
    /\ ChannelBecomes(
         [channel EXCEPT ![i] =
            [m EXCEPT !.stage = "answered",
                      !.responses = @ + 1,
                      !.rejected = outcome.rejected,
                      !.isNull = response.isNull,
                      !.value = response.value]],
         settings)

\* the port of a message closes before a response was sent: the message
\* had no receiver, or the service worker was stopped or the extension
\* reloaded while the request was in progress.  chrome.tabs.create may have
\* been carried out by then.
PortCloses ==
  \E i \in 1..Len(channel) : \E tabOpened \in BOOLEAN :
    LET m == channel[i] IN
    /\ m.stage \in {"sent", "creating", "reading"}
    /\ tabOpened => m.stage = "creating"
    /\ ChannelBecomes(
         [channel EXCEPT ![i] =
            [m EXCEPT !.stage = "failed",
                      !.tabs = IF tabOpened THEN @ + 1 ELSE @]],
         settings)

\* the callback the content script gave to sendMessage runs: the one of
\* openProvider or the one of loadSettings
CallbackRuns ==
  \E i \in 1..Len(channel) :
    LET m == channel[i]
        lastError == m.stage = "failed"
        w == IF m.type = "OPEN_TAB"
               THEN onOpenTabResponse(World, m.url, lastError)
               ELSE onGetSettingsResponse(World, lastError, m.isNull, m.value)
    IN
    /\ m.stage \in {"answered", "failed"}
    /\ m.click \/ m.type = "GET_SETTINGS"
    /\ ChannelBecomes(
         [channel EXCEPT ![i] =
            [m EXCEPT !.stage = "done",
                      !.direct = @ + Len(w.windowOpens)]],
         w.settings)

NextMessaging ==
  \/ ClickSends
  \/ LoadSettingsSends
  \/ OtherSends
  \/ Receive
  \/ CreateSettles
  \/ GetSettingsSettles
  \/ PortCloses
  \/ CallbackRuns

SpecMessaging == InitMessaging /\ [][NextMessaging]_vars

(***************************************************************************)
(* The options page after loadSettings has finished.  Every change event   *)
(* runs its handler to the await of saveSettings; the rest of saveSettings *)
(* runs when the promise of chrome.storage.sync.set settles.  intended     *)
(* collects the value every toggle asked for, in the order of the toggles  *)
(* (history).                                                              *)
(***************************************************************************)
\* what chrome.storage.sync can hold when the page is opened
StoredOptions ==
  { optionsDefaults,
    [enabled |-> FALSE,
     providers |-> [chatgpt |-> FALSE, google |-> TRUE, claude |-> TRUE],
     affordanceMode |-> "picker"] }

InitOptions ==
  /\ settings = getDefaultSettings
  /\ floatingUI = [container |-> 0, buttons |-> <<>>, isVisible |-> FALSE]
  /\ selectionTimeout = 0
  /\ timers = <<>>
  /\ shadowRoot = {}
  /\ runtime = FALSE
  /\ settingsListener = FALSE
  /\ getSettingsPending = FALSE
  /\ requests = <<>>
  /\ layout = DefaultLayout
  /\ position = Unpositioned
  /\ page = SinglePage
  /\ service = NoService
  /\ show = NotShowing
  /\ channel = NoChannel
  /\ options \in { LoadedOptions(s) : s \in StoredOptions }
  /\ lastEvent = Event("init", "", FALSE, NullSelection, <<>>)

\* the options page changed to o
OptionsBecomes(o) ==
  /\ options' = o
  /\ UNCHANGED << settings, floatingUI, selectionTimeout, timers, shadowRoot,
                  runtime, settingsListener, getSettingsPending, requests,
                  layout, position, page, service, show, channel, lastEvent >>

\* the change event of the Enable checkbox, which shows settings.enabled
EnabledChange ==
  LET checked == ~options.settings.enabled
      o == handleEnabledChange(options, checked)
  IN
  /\ options.toggles < MaxToggles
  /\ OptionsBecomes([o EXCEPT !.intended.enabled = checked,
                              !.toggles = @ + 1])

\* the change event of the checkbox of a provider, which shows
\* settings.providers[provider]
ProviderChange ==
  \E provider \in {"chatgpt", "google", "claude"} :
    LET checked == ~options.settings.providers[provider]
        o == handleProviderChange(options, provider, checked)
    IN
    /\ options.toggles < MaxToggles
    /\ OptionsBecomes([o EXCEPT !.intended.providers[provider] = checked,
                                !.toggles = @ + 1])

\* a click on one of the two mode buttons
ModeChange ==
  \E affordanceMode \in {"quick-actions", "picker"} :
    LET o == handleModeChange(options, affordanceMode) IN
    /\ options.toggles < MaxToggles
    /\ OptionsBecomes([o EXCEPT !.intended.affordanceMode = affordanceMode,
                                !.toggles = @ + 1])

\* the oldest pending chrome.storage.sync.set resolves
SaveResolves ==
  /\ options.saves # << >>
  /\ OptionsBecomes(saveSettingsResolved(options))

\* the oldest pending chrome.storage.sync.set is rejected
SaveRejects ==
  /\ options.saves # << >>
  /\ OptionsBecomes(saveSettingsRejected(options))

NextOptions ==
  \/ EnabledChange
  \/ ProviderChange
  \/ ModeChange
  \/ SaveResolves
  \/ SaveRejects

SpecOptions == InitOptions /\ [][NextOptions]_vars

TypeOK ==
  /\ settings \in AllSettings
  /\ Len(timers) <= MaxTimers
  /\ Len(requests) <= MaxRequests
  /\ lastEvent.sel \in Selections

(***************************************************************************)
(* Properties.                                                             *)
(***************************************************************************)
\* no overlay element is attached and the handler tracks none
OverlayAbsent ==
  /\ shadowRoot = {}
  /\ floatingUI.container = 0
  /\ ~floatingUI.isVisible

C2_DismissalHides ==
  ( \/ lastEvent.type = "keydown" /\ lastEvent.arg = "Escape" /\ lastEvent.flag
    \/ lastEvent.type = "scroll"
    \/ lastEvent.type = "selectionchange"
         /\ (lastEvent.sel.isNull \/ lastEvent.sel.isCollapsed) )
  => OverlayAbsent

\* Escape was pressed while the overlay was visible
C2_Witness ==
  /\ lastEvent.type = "keydown"
  /\ lastEvent.arg = "Escape"
  /\ lastEvent.flag
  /\ OverlayAbsent

\* C3 as stated: once a pointer-down outside the overlay is processed, the
\* overlay is absent.
C3_PointerDownHides ==
  (lastEvent.type = "pointerdown" /\ lastEvent.arg = "page") => OverlayAbsent

\* C3, amended: once a click outside the overlay is processed, the overlay
\* is absent (no wait for the debounce timer); the tracked timer is cleared.
C3_ClickOutsideHides ==
  (lastEvent.type = "click" /\ lastEvent.arg = "page")
  => (OverlayAbsent /\ (lastEvent.flag => selectionTimeout = 0))

\* a click outside arrived while the overlay was visible
C3_Witness ==
  /\ lastEvent.type = "click"
  /\ lastEvent.arg = "page"
  /\ lastEvent.flag
  /\ OverlayAbsent

\* C4: an evaluation whose selection is null or collapsed, or whose text is
\* empty after trimming, creates no overlay and leaves none.
C4_EmptySelectionHides ==
  ( /\ lastEvent.type = "timer"
    /\ (lastEvent.sel.isNull \/ lastEvent.sel.isCollapsed \/ trim(lastEvent.sel.text) = <<>>) )
  => OverlayAbsent

\* an evaluation has read a range whose text is white space only
C4_Witness ==
  /\ lastEvent.type = "timer"
  /\ ~lastEvent.sel.isNull
  /\ ~lastEvent.sel.isCollapsed
  /\ lastEvent.sel.text = << " " >>
  /\ OverlayAbsent

\* the node or one of its ancestors is an input, a textarea or an element
\* whose contenteditable attribute is in an editable state
RECURSIVE InsideEditableSurface(_)
InsideEditableSurface(n) ==
  \/ Page[n].tagName \in {"INPUT", "TEXTAREA"}
  \/ Page[n].ce \in {"true", "", "plaintext-only"}
  \/ (Page[n].parent # n /\ InsideEditableSurface(Page[n].parent))

\* C5: an evaluation whose selection starts inside an editable surface
\* (input, textarea, content-editable element or a descendant of one)
\* creates no overlay and leaves none, whatever the text.
C5_EditableSelectionHides ==
  ( /\ lastEvent.type = "timer"
    /\ ~lastEvent.sel.isNull
    /\ ~lastEvent.sel.isCollapsed
    /\ InsideEditableSurface(lastEvent.sel.startContainer) )
  => OverlayAbsent

\* C6: at most one debounce timer is pending at any time.
C6_OnePendingTimer == Len(timers) <= 1

\* the last event ran hideFloatingUI as a dismissal
DismissalRan ==
  \/ lastEvent.type = "keydown" /\ lastEvent.arg = "Escape" /\ lastEvent.flag
  \/ lastEvent.type = "scroll"
  \/ lastEvent.type = "click" /\ lastEvent.flag
  \/ lastEvent.type = "selectionchange"
       /\ (lastEvent.sel.isNull \/ lastEvent.sel.isCollapsed)

\* C7: after a dismissal trigger no debounce timer is pending, so no
\* evaluation runs until a new mouseup or keyup.
C7_DismissalCancelsTimers == DismissalRan => timers = <<>>

\* C8: once all scheduled evaluations have run, the evaluation that ran
\* last is the one scheduled last, and an overlay that is shown carries the
\* text that evaluation read.
C8_LastScheduledWins ==
  (lastEvent.type = "timer" /\ timers = <<>>)
  => /\ lastEvent.flag
     /\ \A c \in shadowRoot : c.selectedText = trim(lastEvent.sel.text)

CapturedTexts == { trim(t) : t \in Texts } \ { <<>> }

\* C10: once the click handler of a provider button has run, the overlay is
\* absent and an open of that provider's URL has been issued (an OPEN_TAB
\* request, or window.open when the runtime is missing or sending throws).
C10_ClickOpensAndHides ==
  lastEvent.type = "buttonClick"
  => /\ OverlayAbsent
     /\ \E t \in CapturedTexts :
          LET url == PROVIDER_URLS(lastEvent.arg, encodeURIComponent(t).value)
          IN ~encodeURIComponent(t).threw
             /\ (url \in Range(requests) \/ url \in Range(lastEvent.opened))

\* C11: whenever the OPEN_TAB request fails (no response and lastError, or
\* a response with success false), the callback opens the URL directly.
\* (The absent collaborator and the throwing send are the window.open
\* branches of openProvider, covered by C10.)
C11_FailureFallsBack ==
  (lastEvent.type = "openTabResponse" /\ lastEvent.arg # "success")
  => lastEvent.opened # <<>>

\* the providers in the order the overlay is to list them
ProviderOrder == << "chatgpt", "google", "claude" >>

\* the enabled providers of settings s, in that order
EnabledProviders(s) == SelectSeq(ProviderOrder, LAMBDA p : s[p])

\* the providers of a sequence of buttons
ButtonProviders(bs) == [i \in 1..Len(bs) |-> bs[i].provider]

\* C12: the buttons of an overlay an evaluation has just shown (the
\* extension is enabled and the selection was read, so the evaluation showed
\* or hid) are exactly the providers enabled in the settings, in the order
\* ChatGPT, Google, Claude, for each of the eight combinations.
C12_ButtonsAreEnabledProviders ==
  (lastEvent.type = "timer" /\ settings.enabled /\ ~lastEvent.sel.throws)
  => \A c \in shadowRoot :
       /\ ButtonProviders(c.buttons) = EnabledProviders(settings)
       /\ floatingUI.buttons = c.buttons

\* an overlay was shown with all three providers enabled
C12_Witness ==
  /\ lastEvent.type = "timer"
  /\ settings.enabled
  /\ ~lastEvent.sel.throws
  /\ settings.chatgpt /\ settings.google /\ settings.claude
  /\ \E c \in shadowRoot : Len(c.buttons) = 3

\* C13: once a SETTINGS_UPDATED message is processed, no attached overlay
\* has a button set that differs from the new settings.
C13_NoStaleButtons ==
  lastEvent.type = "settingsUpdated"
  => \A c \in shadowRoot :
       ButtonProviders(c.buttons) = EnabledProviders(settings)

\* a SETTINGS_UPDATED message arrived while an overlay was visible
C13_Witness ==
  /\ lastEvent.type = "settingsUpdated"
  /\ lastEvent.flag
  /\ shadowRoot = {}

\* C14: while the settings held by the handler have enabled = false, no
\* overlay is attached.
C14_DisabledNoOverlay == ~settings.enabled => shadowRoot = {}

\* the size positionContainer places: the measured size, or 60 x 30
PlacedWidth == OrDefault(layout.measured.width, 60)
PlacedHeight == OrDefault(layout.measured.height, 30)

\* the selection rectangle lies fully inside the viewport
SelectionInsideViewport ==
  LET r == layout.selectionRect IN
  /\ ~isNaN(r.left)
  /\ 0 <= r.left /\ r.right <= innerWidth
  /\ 0 <= r.top /\ r.bottom <= innerHeight

\* the placed rectangle keeps the margin of 4 to all four viewport edges
PlacementInsideMargins ==
  /\ 4 <= position.left
  /\ position.left + PlacedWidth <= innerWidth - 4
  /\ 4 <= position.top
  /\ position.top + PlacedHeight <= innerHeight - 4

\* C15 as stated: for a selection rectangle fully inside the viewport and an
\* overlay smaller than the viewport, the placed rectangle lies within
\* [4, viewportWidth - 4] x [4, viewportHeight - 4].
C15_SmallerThanViewport ==
  ( /\ position.set
    /\ SelectionInsideViewport
    /\ PlacedWidth < innerWidth
    /\ PlacedHeight < innerHeight )
  => PlacementInsideMargins

\* C15, amended: the same for an overlay that is at most the viewport less
\* twice the margin on both axes.
C15_FitsBetweenMargins ==
  ( /\ position.set
    /\ SelectionInsideViewport
    /\ PlacedWidth <= innerWidth - 8
    /\ PlacedHeight <= innerHeight - 8 )
  => PlacementInsideMargins

\* a selection at the right edge: the centred candidate was clamped to the
\* right margin
C15_Witness ==
  /\ position.set
  /\ SelectionInsideViewport
  /\ PlacedWidth <= innerWidth - 8
  /\ PlacedHeight <= innerHeight - 8
  /\ layout.selectionRect.left = 180
  /\ position.left = innerWidth - PlacedWidth - 4

\* the four candidates of the layout, in the order below, above, right, left
Candidates ==
  getCandidatePositions(layout.selectionRect, PlacedWidth, PlacedHeight, 6,
                        innerWidth, innerHeight)

\* the overlap score of candidate i
Score(i) == candidateScore(layout.elements, Candidates[i], PlacedWidth, PlacedHeight)

\* C16: the position chosen is the first candidate, in the order below,
\* above, right, left, whose overlap score is the minimum of the four.
C16_FirstMinimumWins ==
  position.set
  => \E i \in 1..4 :
       /\ position.top = Candidates[i].top
       /\ position.left = Candidates[i].left
       /\ \A j \in 1..4 : Score(i) <= Score(j)
       /\ \A j \in 1..(i - 1) : Score(j) > Score(i)

\* the below candidate collides and a candidate with a strictly lower score
\* was chosen in its place
C16_Witness ==
  /\ position.set
  /\ Score(1) > 0
  /\ \E i \in 2..4 :
       /\ position.top = Candidates[i].top
       /\ position.left = Candidates[i].left
       /\ Score(i) < Score(1)
       /\ Candidates[i] # Candidates[1]

\* C17: positionContainer produces a position for every layout (zero-size
\* measured overlay, degenerate selection rectangle, NaN coordinates, overlay
\* larger than the viewport), and its top and left are at least 4.
C17_AlwaysPositioned ==
  position.set
  => /\ ~isNaN(position.top) /\ position.top >= 4
     /\ ~isNaN(position.left) /\ position.left >= 4

\* a zero-size measurement at a selection rectangle with a NaN coordinate
C17_Witness ==
  /\ position.set
  /\ isNaN(layout.selectionRect.left)
  /\ layout.measured.width = 0
  /\ layout.measured.height = 0
  /\ position.left = 4

\* C18: after a restore from the back/forward cache that found a stale host
\* in the document, the construction of
\* the new handler leaves its host as the only one in the document, and once
\* re-initialisation is complete an evaluation of a valid selection by the
\* new handler (the page not left in between) leaves exactly one overlay
\* attached to the document.
C18_ReinitLeavesOneOverlay ==
  /\ (page.staleRestore /\ lastEvent.type \in {"initialize", "construct"}
        /\ page.handlerInstance # 0)
     => page.hosts = {page.handlerInstance}
  /\ ( /\ page.staleRestore
       /\ page.tasks = <<>>
       /\ page.handlerInstance # 0
       /\ ~page.unloaded
       /\ lastEvent.type = "timer"
       /\ lastEvent.arg = "newest"
       /\ ~lastEvent.sel.isCollapsed )
     => Cardinality(AttachedOverlays(page)) = 1

\* C19: at most one shadow host is attached to the document at any time.
C19_AtMostOneHost == Cardinality(page.hosts) <= 1

\* C20: an evaluation that finds the selection API unavailable (null) or
\* throwing ends as a hide: no overlay is left (and, for the throwing case,
\* the evaluation would have to catch the exception to get there).
C20_ApiFailureHides ==
  (lastEvent.type = "timer" /\ (lastEvent.sel.isNull \/ lastEvent.sel.throws))
  => OverlayAbsent

\* C28: a click that comes from inside the overlay's element tree (the
\* document listener sees the shadow host as its target) while the overlay
\* is visible leaves the overlay attached.
C28_InsideClickKeeps ==
  (lastEvent.type = "click" /\ lastEvent.arg = "shadowHost" /\ lastEvent.flag)
  => shadowRoot # {}

\* this step is a keyup (the one step that leaves lastEvent as it is, the
\* loss of the runtime, changes runtime)
KeyReleased ==
  /\ lastEvent'.type = "keyup"
  /\ runtime' = runtime

\* C29: in every step that is a keyup, the handler of an Escape keyup
\* leaves the pending timers, the tracked handle and the overlay as they
\* were; the handler of any other keyup adds one timer and tracks it.
C29_EscapeKeyUpSchedulesNothing ==
  [][ KeyReleased =>
        IF lastEvent'.arg = "Escape"
          THEN /\ timers' = timers
               /\ selectionTimeout' = selectionTimeout
               /\ shadowRoot' = shadowRoot
               /\ floatingUI' = floatingUI
          ELSE /\ Len(timers') = Len(timers) + 1
               /\ selectionTimeout' = timers'[Len(timers')] ]_vars

\* Escape was released with no overlay and no timer pending: nothing will
\* evaluate the selection that is still there
C29_Witness ==
  /\ lastEvent.type = "keyup"
  /\ lastEvent.arg = "Escape"
  /\ OverlayAbsent
  /\ timers = <<>>

\* C22: after the beforeunload listeners have run, no shadow host and no
\* overlay is attached to the document and no handler holds a visible
\* overlay, whether or not an overlay was attached before.
C22_UnloadRemovesOverlayAndHost ==
  lastEvent.type = "beforeunload"
  => /\ page.hosts = {}
     /\ AttachedOverlays(page) = {}
     /\ \A h \in 1..Len(page.handlers) :
           /\ ~page.handlers[h].floatingUI.isVisible
           /\ page.handlers[h].floatingUI.container = 0

\* the page was left while an overlay was attached
C22_Witness ==
  /\ lastEvent.type = "beforeunload"
  /\ lastEvent.flag
  /\ page.hosts = {}

\* C26: a handler whose cleanup has run has no evaluation pending and no
\* overlay in its shadow root, whatever events followed the cleanup.
C26_CleanedHandlerIsSilent ==
  \A h \in page.cleaned :
    /\ page.handlers[h].timers = <<>>
    /\ page.handlers[h].shadowRoot = {}

\* C27: a mouseup schedules an evaluation in at most one handler, however
\* often the extension was initialised.
C27_OneHandlerReacts ==
  lastEvent.type = "mouseup"
  => Cardinality({ h \in 1..Len(page.handlers) :
                     page.handlers[h].timers # <<>> }) <= 1

\* the handler that ran in this step passed url to sendMessage or to
\* window.open, and nothing else
Requested(url) ==
  \/ requests' = Append(requests, url) /\ lastEvent'.opened = <<>>
  \/ requests' = requests /\ lastEvent'.opened = << url >>

\* this step is a click on a button whose handler does not throw (such a
\* handler hides the overlay, so the event before it is another one)
ButtonClicked ==
  /\ lastEvent'.type = "buttonClick"
  /\ ~lastEvent'.flag
  /\ lastEvent' # lastEvent

\* C24: in every step that is a click on a button whose handler does not
\* throw, the one URL requested is the provider's URL for the text the
\* overlay was built with, whatever the selection is at the click.
C24_UrlFromCapturedText ==
  [][ ButtonClicked =>
        \E c \in shadowRoot :
          Requested(PROVIDER_URLS(lastEvent'.arg,
                                  encodeURIComponent(c.selectedText).value))
    ]_vars

\* a button was clicked while the document held another range than the one
\* the overlay was built for, and the URL of the captured text was requested
C24_Witness ==
  /\ lastEvent.type = "buttonClick"
  /\ ~lastEvent.flag
  /\ lastEvent.sel = RangeSelection(<< "HS" >>, "pText")
  /\ \/ requests # <<>> /\ requests[Len(requests)] =
          PROVIDER_URLS(lastEvent.arg, encodeURIComponent(<< "a", " ", "&" >>).value)
     \/ lastEvent.opened =
          << PROVIDER_URLS(lastEvent.arg, encodeURIComponent(<< "a", " ", "&" >>).value) >>

\* the URL parses, its protocol is https and its host name is one of the
\* three providers'
Acceptable(url) ==
  /\ ~parseUrl(url).threw
  /\ parseUrl(url).protocol = "https:"
  /\ parseUrl(url).hostname \in {"www.google.com", "chatgpt.com", "claude.ai"}

\* the URLs of the requests answered with success: true, in order
SucceededUrls ==
  LET ok == SelectSeq(service.replies, LAMBDA r : r.success)
  IN [i \in 1..Len(ok) |-> ok[i].url]

\* C25: chrome.tabs.create is called, and a tab exists, only for a URL
\* whose protocol is https and whose host name is www.google.com,
\* chatgpt.com or claude.ai; every other request is answered with
\* success: false; the tabs are those of the requests answered with
\* success: true.
C25_TabsOnlyForProviderUrls ==
  /\ \A i \in 1..Len(service.creating) : Acceptable(service.creating[i])
  /\ \A i \in 1..Len(service.tabs) : Acceptable(service.tabs[i])
  /\ \A i \in 1..Len(service.replies) :
       ~Acceptable(service.replies[i].url) => ~service.replies[i].success
  /\ service.tabs = SucceededUrls

\* a request for a foreign host was refused and a request for a provider
\* opened its tab
C25_Witness ==
  /\ service.tabs # <<>>
  /\ \E i \in 1..Len(service.replies) :
       /\ service.replies[i].url = << "https://claude.ai.evil.example/new?q=", "a" >>
       /\ ~service.replies[i].success

\* C23: a container whose invisibility is lifted, or that has the class
\* 'visible', has had its top and left written; and when the handler records
\* the overlay as visible, the container it refers to is attached to the
\* shadow root, positioned and revealed.
C23_PositionedBeforeRevealed ==
  /\ \A c \in shadowRoot :
       (c.visibility = "" \/ c.visibleClass) => c.position.set
  /\ floatingUI.isVisible =>
       \E c \in shadowRoot :
         /\ c.id = floatingUI.container
         /\ c.position.set
         /\ c.visibility = ""

\* an overlay went through attachment, positioning, reveal and record, and
\* its animation frame has run
C23_Witness ==
  /\ show.pc = "idle"
  /\ floatingUI.isVisible
  /\ \E c \in shadowRoot :
       /\ c.id = floatingUI.container
       /\ c.visibleClass
       /\ c.position.set

\* C30: whenever no call of showFloatingUI is in progress, every container
\* attached to the shadow root is the one this.floatingUI.container refers
\* to (so that the next hide removes it), also after a call that an
\* exception ended.
C30_NoOrphanContainer ==
  show.pc = "idle" => Orphans = {}

\* the mouse button or a key other than Escape was released while the
\* extension was enabled
Released ==
  /\ settings.enabled
  /\ \/ lastEvent.type = "mouseup"
     \/ lastEvent.type = "keyup" /\ lastEvent.arg # "Escape"

\* the overlay is visible with the trimmed text of the selection sel
ShownFor(sel) ==
  /\ floatingUI.isVisible
  /\ \E c \in shadowRoot :
       c.id = floatingUI.container /\ c.selectedText = trim(sel.text)

\* an evaluation has run and, if it found a valid selection with the
\* extension enabled, the overlay for that selection is visible
Evaluated ==
  /\ lastEvent.type = "timer"
  /\ reachesShow(World, lastEvent.sel) => ShownFor(lastEvent.sel)

\* an Escape press, a scroll, a pointer-down outside the overlay or a
\* clearing of the selection has happened
Excused ==
  \/ lastEvent.type = "keydown" /\ lastEvent.arg = "Escape"
  \/ lastEvent.type = "scroll"
  \/ lastEvent.type = "pointerdown" /\ lastEvent.arg = "page"
  \/ lastEvent.type = "selectionchange"
       /\ (lastEvent.sel.isNull \/ lastEvent.sel.isCollapsed)

\* C21: a release of the mouse button or of a key with the extension
\* enabled leads to an evaluation that shows the overlay when it finds a
\* valid selection, unless an Escape press, a scroll, an outside
\* pointer-down or a clearing of the selection comes first.
C21_ReleaseLeadsToOverlay == Released ~> (Evaluated \/ Excused)

\* C31: between two handlers (no call of showFloatingUI in progress)
\* floatingUI.container is set exactly when isVisible is true, exactly when
\* a container is attached to the shadow root, and buttons is empty
\* whenever container is null.
C31_TrackedIffAttached ==
  show.pc = "idle" =>
    /\ (floatingUI.container # 0) <=> floatingUI.isVisible
    /\ floatingUI.isVisible <=> (shadowRoot # {})
    /\ floatingUI.container = 0 => floatingUI.buttons = <<>>

\* the rectangle a candidate position gives a container of the placed size
CandidateRect(i) ==
  [left |-> Candidates[i].left, top |-> Candidates[i].top,
   right |-> Candidates[i].left + PlacedWidth,
   bottom |-> Candidates[i].top + PlacedHeight,
   width |-> PlacedWidth, height |-> PlacedHeight]

\* the elements of the page found at a sample point of candidate i that are
\* visible, positioned fixed, absolute or sticky and have a size
Occluders(i) ==
  LET points == getSamplePoints(CandidateRect(i))
  IN { e \in 1..Len(layout.elements) :
         /\ \E k \in 1..5 : e \in elementsFromPoint(layout.elements, points[k].x, points[k].y)
         /\ layout.elements[e].visibility = "visible"
         /\ layout.elements[e].display # "none"
         /\ layout.elements[e].position \in {"fixed", "absolute", "sticky"}
         /\ layout.elements[e].rect.width > 0
         /\ layout.elements[e].rect.height > 0 }

\* the area two rectangles share
SharedArea(a, b) ==
  LET l == IF a.left > b.left THEN a.left ELSE b.left
      r == IF a.right < b.right THEN a.right ELSE b.right
      t == IF a.top > b.top THEN a.top ELSE b.top
      u == IF a.bottom < b.bottom THEN a.bottom ELSE b.bottom
  IN IF r > l /\ u > t THEN (r - l) * (u - t) ELSE 0

\* the sum of the areas candidate i shares with its occluders above place e
RECURSIVE OccludedArea(_, _)
OccludedArea(i, e) ==
  IF e > Len(layout.elements) THEN 0
  ELSE (IF e \in Occluders(i)
        THEN SharedArea(CandidateRect(i), layout.elements[e].rect) ELSE 0)
       + OccludedArea(i, e + 1)

\* C36: the overlap score of each candidate is the sum of the intersection
\* areas of the candidate with every element found at its five sample points
\* that is visible, positioned fixed, absolute or sticky and has a non-zero
\* size; none of them is left out.
C36_ScoreIsSumOfAreas ==
  position.set => \A i \in 1..4 : Score(i) = OccludedArea(i, 1)

\* a candidate that lies over two positioned elements and scores the sum of
\* both areas
C36_Witness ==
  /\ position.set
  /\ \E i \in 1..4 :
       /\ Cardinality({ e \in Occluders(i) :
                          SharedArea(CandidateRect(i), layout.elements[e].rect) > 0 }) >= 2
       /\ Score(i) > 0

\* C32: for each button click at most one tab is opened: the tabs
\* chrome.tabs.create opened for its request and the calls of window.open
\* of its fallback are together at most one.
C32_AtMostOneTabPerClick ==
  \A i \in 1..Len(channel) :
    channel[i].click => channel[i].tabs + channel[i].direct <= 1

\* C33: never more than one response is sent for a message; an OPEN_TAB or
\* GET_SETTINGS message the service has finished with has exactly one, and
\* none before; the OPEN_TAB response is success: true exactly when the URL
\* passed validation and tab creation resolved; for any other type no
\* response is sent and no tab is created.
C33_OneResponsePerRequest ==
  \A i \in 1..Len(channel) :
    LET m == channel[i] IN
    /\ m.responses <= 1
    /\ m.stage = "answered" => m.responses = 1
    /\ m.stage \in {"sent", "creating", "reading", "closed"} => m.responses = 0
    /\ (m.type = "OPEN_TAB" /\ m.responses = 1)
         => (m.success <=> (Acceptable(m.url) /\ m.created))
    /\ m.type \notin {"OPEN_TAB", "GET_SETTINGS"}
         => (m.responses = 0 /\ m.tabs = 0 /\ m.stage \in {"sent", "closed", "failed"})

\* an OPEN_TAB request was answered with success: true after its tab was
\* created, and a message of another type was handled without a response
C33_Witness ==
  \E i, j \in 1..Len(channel) :
    /\ channel[i].type = "OPEN_TAB"
    /\ channel[i].responses = 1
    /\ channel[i].success
    /\ channel[i].tabs = 1
    /\ channel[j].type \in {"SETTINGS_UPDATED", "PING"}
    /\ channel[j].stage = "closed"

\* C34: getSettings is never rejected, and when the settings could not be
\* loaded (the callback of loadSettings ran with lastError set or with a
\* null response) the content script has its default settings.
C34_LoadFailureKeepsDefaults ==
  \A i \in 1..Len(channel) :
    LET m == channel[i] IN
    m.type = "GET_SETTINGS" =>
      /\ ~m.rejected
      /\ (m.stage = "done" /\ (m.responses = 0 \/ m.isNull))
           => settings = getDefaultSettings

\* C35: the URL a button click puts into its OPEN_TAB message, or opens
\* itself, is one validateUrl returns unchanged: https and a host name of
\* the allow-list.
C35_BuiltUrlsAreAccepted ==
  \A i \in 1..Len(channel) :
    channel[i].click =>
      /\ validateUrl(channel[i].url) = channel[i].url
      /\ Acceptable(channel[i].url)
      /\ channel[i].responses = 1 => (channel[i].success <=> channel[i].created)

\* the ChatGPT link of a text with a space and an ampersand passed
\* validation: chrome.tabs.create is pending for it
C35_Witness ==
  \E i \in 1..Len(channel) :
    /\ channel[i].click
    /\ channel[i].stage = "creating"
    /\ channel[i].url = << "https://chatgpt.com/?q=", "a", "%20", "%26",
                           "&input=", "a", "%20", "%26" >>

\* C37: once every save has completed, none of them rejected, the stored
\* settings hold the value of every toggle made: no change is overwritten
\* by a later save.
C37_NoToggleLost ==
  (options.saves = << >> /\ ~options.failed)
    => options.stored = options.intended
====
